---- MODULE Spec2Model ----
(***************************************************************************)
(* Stamp card server (login-based server.js): the users / stamp_events /   *)
(* user_profiles / auth_identities store, the HTTP handlers that read and  *)
(* write it, and the sessions of the clients that call them.               *)
(*                                                                         *)
(* The store is one SQLite connection: every SQL statement executes        *)
(* atomically (autocommit), and a handler is a chain of statements.  A     *)
(* handler's position between two statements is pc[c]; the statements of   *)
(* handlers running for different clients interleave freely.  A callback   *)
(* that runs on completion of a statement is part of that statement's      *)
(* step.                                                                   *)
(*                                                                         *)
(* Strings that the code normalizes (user names, mail addresses) are       *)
(* sequences of one-character strings; ids and tokens are plain strings;   *)
(* ISO timestamps are natural numbers (their order is the time order).     *)
(* An absent value (null / undefined) of a timestamp is <<>>, a present    *)
(* one <<t>>.                                                              *)
(***************************************************************************)
EXTENDS Integers, Sequences, FiniteSets, TLC

\* ------------------------------------------------------------------ bounds
MaxClock == 1
MaxEvents == 3
MaxCapEvents == 15
MaxCapResets == 1
MaxGuestGrants == 1
MaxWriterEvents == 2

\* ------------------------------------------------------- program constants
MaxStamps == 13
RecentLimit == 3

\* ------------------------------------------------------------------ inputs
Clients == {"c1", "c2"}
Uuids == {"u1", "u2"}

Min(a, b) == IF a < b THEN a ELSE b
Max(a, b) == IF a > b THEN a ELSE b

\* ------------------------------------------------------------ pure helpers
IsSpace(ch) == ch = " "

RECURSIVE TrimLeft(_)
TrimLeft(s) ==
  IF s # <<>> /\ IsSpace(Head(s)) THEN TrimLeft(Tail(s)) ELSE s

RECURSIVE TrimRight(_)
TrimRight(s) ==
  IF s # <<>> /\ IsSpace(s[Len(s)]) THEN TrimRight(SubSeq(s, 1, Len(s) - 1)) ELSE s

Trim(s) == TrimRight(TrimLeft(s))

LowerChar(ch) ==
  CASE ch = "A" -> "a"
    [] ch = "B" -> "b"
    [] ch = "N" -> "n"
    [] OTHER -> ch

ToLowerCase(s) == [i \in 1..Len(s) |-> LowerChar(s[i])]

\* mutant: the user name is taken as typed
normalizeUsernameNoTrim(value) == value

\* mutant: the user name is trimmed and lowercased
normalizeUsernameLower(value) == ToLowerCase(Trim(value))

\* mutant: the address is trimmed but its case kept
normalizeMailWrong(value) == Trim(value)

normalizeMail(value) == ToLowerCase(Trim(value))

normalizeUsername(value) == Trim(value)

\* (variant) the counter is capped at 13 only: a negative value passes
clampStampsUpper(stamps) == Min(MaxStamps, stamps)

clampStamps(stamps) == Min(MaxStamps, Max(0, stamps))

\* ------------------------------------------------------------------- state
VARIABLES
  users,            \* table users: id -> [stamps, isAdmin]
  stamp_events,     \* table stamp_events in rowid (insertion) order
  user_profiles,    \* table user_profiles: userId -> row
  auth_identities,  \* table auth_identities in rowid order
  session,          \* req.session.userId of each client ("" when not logged in)
  pc,               \* where each client's request in flight stands
  loc,              \* the local variables of that request
  resp,             \* the last response each client received
  now,              \* the clock read by nowIso() / new Date().toISOString()
  ADMIN_TOKEN,      \* process.env.ADMIN_TOKEN
  served,           \* per user id, the 200 responses sent so far by grant and by reset
  page,             \* the user page open in each client's browser, and its localStorage
  startup           \* where the schema check run at process start stands

vars == <<users, stamp_events, user_profiles, auth_identities, session, pc, loc,
          resp, now, ADMIN_TOKEN, page, startup, served>>

store == <<users, stamp_events, user_profiles, auth_identities>>

GuestId == "guest"
UserIds == Uuids \cup {GuestId}

NoLoc ==
  [userId |-> "", username |-> <<>>, mail |-> <<>>, mailRaw |-> <<>>, createdAt |-> 0,
   stamps |-> 0, isAdmin |-> FALSE, profile |-> <<>>, last |-> <<>>,
   withProfile |-> FALSE, usernameRaw |-> <<>>, providerKey |-> <<>>,
   existing |-> <<>>, caller |-> "", setCookie |-> <<>>]

NoResp ==
  [op |-> "", status |-> 0, error |-> "", id |-> "", stamps |-> 0,
   isAdmin |-> FALSE, lastUpdatedAt |-> <<>>, recentEvents |-> <<>>,
   profile |-> <<>>, mailAddress |-> <<>>]

\* the schema check has run: the users table has its isAdmin column and
\* ensureAdminUser has been through.  The row of ADMIN_USER_ID that it leaves in
\* an empty store is named by no request of the specifications below and is
\* left out of their users table; SpecStartup is about that row.
StartupDone == [pc |-> "done", hasIsAdmin |-> TRUE]

\* no page open; nothing in localStorage
NoPage ==
  [open |-> FALSE, userId |-> "", currentStamps |-> 0, lastUpdatedAt |-> <<>>,
   resetButton |-> FALSE, fetching |-> "", toasts |-> <<>>, localStorage |-> {}]

ErrorResp(op, status, error) == [NoResp EXCEPT !.op = op, !.status = status, !.error = error]

RECURSIVE ServedTotal(_)
ServedTotal(ids) ==
  IF ids = {} THEN 0
  ELSE LET u == CHOOSE x \in ids : TRUE
       IN served[u].grant + served[u].reset + ServedTotal(ids \ {u})

\* grants and resets answered so far or still to be answered
LedgerLoad ==
  ServedTotal(UserIds)
    + Cardinality({c \in Clients : pc[c] \in {"g_upsert", "g_select", "r_get", "r_update"}})
    + Cardinality({c \in Clients : pc[c] \in {"u_select", "u_insert"}
                                      /\ loc[c].caller = "reset"})

EmptyTable == [id \in {} |-> 0]

InitWith(tokens) ==
  /\ users = EmptyTable
  /\ stamp_events = <<>>
  /\ user_profiles = EmptyTable
  /\ auth_identities = <<>>
  /\ session = [c \in Clients |-> ""]
  /\ pc = [c \in Clients |-> "idle"]
  /\ loc = [c \in Clients |-> NoLoc]
  /\ resp = [c \in Clients |-> NoResp]
  /\ now = 0
  /\ ADMIN_TOKEN \in tokens
  /\ served = [u \in UserIds |-> [grant |-> 0, reset |-> 0]]
  /\ page = [c \in Clients |-> NoPage]
  /\ startup = StartupDone

Init == InitWith({"secret"})

\* the clock advances between any two steps
Tick ==
  /\ now < MaxClock
  /\ now' = now + 1
  /\ UNCHANGED <<store, session, pc, loc, resp, ADMIN_TOKEN, page, startup, served>>

\* a handler that answers before it touches the store
Reject(c, r) ==
  /\ resp' = [resp EXCEPT ![c] = r]
  /\ UNCHANGED <<store, session, pc, loc, now, ADMIN_TOKEN, page, startup, served>>

\* ------------------------------------------------- POST /api/admin/stamp
\* mutant: the token of the request is not compared
adminGuardOpen(token) == IF ADMIN_TOKEN = "" THEN 500 ELSE 0

\* (variant) the guard only compares: with no secret configured, a request
\* without token matches the empty secret
adminGuardCompareOnly(token) == IF token # ADMIN_TOKEN THEN 401 ELSE 0

adminGuard(token) ==
  IF ADMIN_TOKEN = "" THEN 500
  ELSE IF token # ADMIN_TOKEN THEN 401
  ELSE 0

\* mutant: the row is created already holding a stamp
InsertOrIgnoreUserOne(tbl, id) ==
  IF id \in DOMAIN tbl THEN tbl ELSE tbl @@ (id :> [stamps |-> 1, isAdmin |-> FALSE])

InsertOrIgnoreUser(tbl, id) ==
  IF id \in DOMAIN tbl THEN tbl ELSE tbl @@ (id :> [stamps |-> 0, isAdmin |-> FALSE])

\* mutant: the increment without the cap
GrantValueNoCap(stamps) == stamps + 1

GrantValue(stamps) == IF stamps < MaxStamps THEN stamps + 1 ELSE MaxStamps

\* (variant) the UPDATE without its WHERE clause: every row is written
UpdateStampsAll(tbl, id, value) ==
  [u \in DOMAIN tbl |-> [tbl[u] EXCEPT !.stamps = value]]

UpdateStamps(tbl, id, value) ==
  IF id \in DOMAIN tbl THEN [tbl EXCEPT ![id].stamps = value] ELSE tbl

GrantEventRow(userId, createdAt) ==
  [userId |-> userId, createdAt |-> createdAt, reason |-> "admin_grant", eventType |-> "ADD"]

\* mutant: the check for a missing userId is left out
GrantStartNoIdCheck(c, token, userId, limit) ==
  /\ pc[c] = "idle"
  /\ IF adminGuard(token) = 500
       THEN Reject(c, ErrorResp("grant", 500, "ADMIN_TOKEN is not configured."))
     ELSE IF adminGuard(token) = 401
       THEN Reject(c, ErrorResp("grant", 401, "Unauthorized."))
     ELSE /\ LedgerLoad < limit
          /\ pc' = [pc EXCEPT ![c] = "g_upsert"]
          /\ loc' = [loc EXCEPT ![c] = [NoLoc EXCEPT !.userId = userId]]
          /\ resp' = [resp EXCEPT ![c] = NoResp]
          /\ UNCHANGED <<store, session, now, ADMIN_TOKEN, page, startup, served>>

GrantStart(c, token, userId, limit) ==
  /\ pc[c] = "idle"
  /\ IF adminGuard(token) = 500
       THEN Reject(c, ErrorResp("grant", 500, "ADMIN_TOKEN is not configured."))
     ELSE IF adminGuard(token) = 401
       THEN Reject(c, ErrorResp("grant", 401, "Unauthorized."))
     ELSE IF userId = ""
       THEN Reject(c, ErrorResp("grant", 400, "userId is required."))
     ELSE /\ LedgerLoad < limit
          /\ pc' = [pc EXCEPT ![c] = "g_upsert"]
          /\ loc' = [loc EXCEPT ![c] = [NoLoc EXCEPT !.userId = userId]]
          /\ resp' = [resp EXCEPT ![c] = NoResp]
          /\ UNCHANGED <<store, session, now, ADMIN_TOKEN, page, startup, served>>

\* (variant) read, add, write back: the new counter is computed from the value
\* read before the grants that are still unanswered wrote theirs, so that two
\* concurrent grants write the same number
GrantUpsertStale(c) ==
  /\ pc[c] = "g_upsert"
  /\ LET id == loc[c].userId
         created == InsertOrIgnoreUser(users, id)
         ahead == Cardinality({d \in Clients \ {c} :
                                 pc[d] = "g_select" /\ loc[d].userId = id})
     IN users' = UpdateStamps(created, id,
                              GrantValue(IF created[id].stamps < MaxStamps
                                           THEN created[id].stamps - ahead
                                           ELSE created[id].stamps))
  /\ pc' = [pc EXCEPT ![c] = "g_select"]
  /\ UNCHANGED <<stamp_events, user_profiles, auth_identities, session, loc, resp,
                 now, ADMIN_TOKEN, page, startup, served>>

\* INSERT OR IGNORE and UPDATE are queued together under db.serialize and run
\* back to back, with no other statement between them
GrantUpsert(c) ==
  /\ pc[c] = "g_upsert"
  /\ LET id == loc[c].userId
         created == InsertOrIgnoreUser(users, id)
     IN users' = UpdateStamps(created, id, GrantValue(created[id].stamps))
  /\ pc' = [pc EXCEPT ![c] = "g_select"]
  /\ UNCHANGED <<stamp_events, user_profiles, auth_identities, session, loc, resp,
                 now, ADMIN_TOKEN, page, startup, served>>

\* SELECT id, stamps; its callback queues the event INSERT and answers at once
GrantSelect(c) ==
  /\ pc[c] = "g_select"
  /\ LET id == loc[c].userId
         row == users[id]
     IN /\ resp' = [resp EXCEPT ![c] =
                      [NoResp EXCEPT !.op = "grant", !.status = 200, !.id = id,
                                     !.stamps = clampStamps(row.stamps)]]
        /\ served' = [served EXCEPT ![id].grant = @ + 1]
  /\ loc' = [loc EXCEPT ![c].createdAt = now]
  /\ pc' = [pc EXCEPT ![c] = "g_event"]
  /\ UNCHANGED <<store, session, now, ADMIN_TOKEN, page, startup>>

\* mutant: no event is written when the counter stood at the cap
GrantEventSkipAtCap(c) ==
  /\ pc[c] = "g_event"
  /\ stamp_events' =
       IF users[loc[c].userId].stamps < MaxStamps
         THEN Append(stamp_events, GrantEventRow(loc[c].userId, loc[c].createdAt))
         ELSE stamp_events
  /\ pc' = [pc EXCEPT ![c] = "idle"]
  /\ loc' = [loc EXCEPT ![c] = NoLoc]
  /\ UNCHANGED <<users, user_profiles, auth_identities, session, resp, now,
                 ADMIN_TOKEN, page, startup, served>>

GrantEvent(c) ==
  /\ pc[c] = "g_event"
  /\ stamp_events' = Append(stamp_events, GrantEventRow(loc[c].userId, loc[c].createdAt))
  /\ pc' = [pc EXCEPT ![c] = "idle"]
  /\ loc' = [loc EXCEPT ![c] = NoLoc]
  /\ UNCHANGED <<users, user_profiles, auth_identities, session, resp, now,
                 ADMIN_TOKEN, page, startup, served>>

\* ---------------------------------------------------------- POST /api/reset
\* mutant: the counter is left as it was
ResetValueKeep(stamps) == stamps

ResetValue(stamps) == 0

ResetEventRow(userId, createdAt) ==
  [userId |-> userId, createdAt |-> createdAt, reason |-> "user_reset", eventType |-> "RESET"]

\* mutant: the userId of the request body is used when there is one
ResetStartTrustBody(c, bodyUserId, limit) ==
  /\ pc[c] = "idle"
  /\ IF session[c] = ""
       THEN Reject(c, ErrorResp("reset", 401, "Unauthorized."))
     ELSE /\ LedgerLoad < limit
          /\ pc' = [pc EXCEPT ![c] = "r_get"]
          /\ loc' = [loc EXCEPT ![c] =
                       [NoLoc EXCEPT !.userId = IF bodyUserId # "" THEN bodyUserId
                                                ELSE session[c]]]
          /\ resp' = [resp EXCEPT ![c] = NoResp]
          /\ UNCHANGED <<store, session, now, ADMIN_TOKEN, page, startup, served>>

ResetStart(c, bodyUserId, limit) ==
  /\ pc[c] = "idle"
  /\ IF session[c] = ""
       THEN Reject(c, ErrorResp("reset", 401, "Unauthorized."))
     ELSE IF bodyUserId # "" /\ bodyUserId # session[c]
       THEN Reject(c, ErrorResp("reset", 403, "User mismatch."))
     ELSE /\ LedgerLoad < limit
          /\ pc' = [pc EXCEPT ![c] = "r_get"]
          /\ loc' = [loc EXCEPT ![c] = [NoLoc EXCEPT !.userId = session[c]]]
          /\ resp' = [resp EXCEPT ![c] = NoResp]
          /\ UNCHANGED <<store, session, now, ADMIN_TOKEN, page, startup, served>>

\* await getUserById(userId)
ResetGet(c) ==
  /\ pc[c] = "r_get"
  /\ IF loc[c].userId \in DOMAIN users
       THEN /\ pc' = [pc EXCEPT ![c] = "r_update"]
            /\ UNCHANGED <<loc, resp>>
       ELSE /\ pc' = [pc EXCEPT ![c] = "idle"]
            /\ loc' = [loc EXCEPT ![c] = NoLoc]
            /\ resp' = [resp EXCEPT ![c] = ErrorResp("reset", 404, "User not found.")]
  /\ UNCHANGED <<store, session, now, ADMIN_TOKEN, page, startup, served>>

\* UPDATE users SET stamps = 0; its callback queues the event INSERT and answers
ResetUpdate(c) ==
  /\ pc[c] = "r_update"
  /\ LET id == loc[c].userId
     IN /\ users' = UpdateStamps(users, id, ResetValue(users[id].stamps))
        /\ resp' = [resp EXCEPT ![c] =
                      [NoResp EXCEPT !.op = "reset", !.status = 200, !.id = id, !.stamps = 0]]
        /\ served' = [served EXCEPT ![id].reset = @ + 1]
  /\ loc' = [loc EXCEPT ![c].createdAt = now]
  /\ pc' = [pc EXCEPT ![c] = "r_event"]
  /\ UNCHANGED <<stamp_events, user_profiles, auth_identities, session, now,
                 ADMIN_TOKEN, page, startup>>

\* (variant) a reset starts the history of the user afresh: its earlier rows
\* are deleted and the RESET row is all that remains
ResetEventClear(c) ==
  /\ pc[c] = "r_event"
  /\ stamp_events' =
       Append(SelectSeq(stamp_events, LAMBDA e : e.userId # loc[c].userId),
              ResetEventRow(loc[c].userId, loc[c].createdAt))
  /\ pc' = [pc EXCEPT ![c] = "idle"]
  /\ loc' = [loc EXCEPT ![c] = NoLoc]
  /\ UNCHANGED <<users, user_profiles, auth_identities, session, resp, now,
                 ADMIN_TOKEN, page, startup, served>>

ResetEvent(c) ==
  /\ pc[c] = "r_event"
  /\ stamp_events' = Append(stamp_events, ResetEventRow(loc[c].userId, loc[c].createdAt))
  /\ pc' = [pc EXCEPT ![c] = "idle"]
  /\ loc' = [loc EXCEPT ![c] = NoLoc]
  /\ UNCHANGED <<users, user_profiles, auth_identities, session, resp, now,
                 ADMIN_TOKEN, page, startup, served>>

\* --------------------------------------------------------- identity lookups
\* mutant: the lookup compares the provider only
getAuthIdentityAnyKey(provider, providerKey) ==
  SelectSeq(auth_identities, LAMBDA r : r.provider = provider)

\* SELECT ... FROM auth_identities WHERE provider = ? AND providerKey = ?
getAuthIdentity(provider, providerKey) ==
  SelectSeq(auth_identities,
            LAMBDA r : r.provider = provider /\ r.providerKey = providerKey)

\* SELECT ... FROM user_profiles WHERE userId = ?  (<<>> when there is no row)
getProfileByUserId(userId) ==
  IF userId \in DOMAIN user_profiles THEN <<user_profiles[userId]>> ELSE <<>>

SignupPcs == {"s_check", "s_user", "s_profile", "s_identity"}

OAuthPcs == {"o_check", "o_user", "o_profile", "o_identity"}

\* requests in flight that draw, or have drawn, an id from randomUUID()
CreatorPcs == SignupPcs \cup OAuthPcs

\* crypto.randomUUID(): an id no row and no request in flight carries
FreshUuids == Uuids \ (DOMAIN users \cup {loc[d].userId : d \in Clients})

\* -------------------------------------------------------- POST /api/signup
SignupStart(c, username, mailAddress, description, job, hobbies) ==
  /\ pc[c] = "idle"
  /\ IF normalizeUsername(username) = <<>> \/ normalizeMail(mailAddress) = <<>>
       THEN Reject(c, [ErrorResp("signup", 400, "required") EXCEPT
                         !.mailAddress = mailAddress])
       ELSE /\ Cardinality(Uuids \ DOMAIN users)
                 > Cardinality({d \in Clients : pc[d] \in CreatorPcs})
            /\ pc' = [pc EXCEPT ![c] = "s_check"]
            /\ loc' = [loc EXCEPT ![c] =
                         [NoLoc EXCEPT !.username = normalizeUsername(username),
                                       !.mail = normalizeMail(mailAddress),
                                       !.mailRaw = mailAddress,
                                       !.profile = <<[description |-> description,
                                                      job |-> job,
                                                      hobbies |-> hobbies]>>]]
            /\ resp' = [resp EXCEPT ![c] = NoResp]
            /\ UNCHANGED <<store, session, now, ADMIN_TOKEN, page, startup, served>>

\* await getAuthIdentity("local", mailAddress); then randomUUID() and nowIso()
SignupCheck(c) ==
  /\ pc[c] = "s_check"
  /\ IF getAuthIdentity("local", loc[c].mail) # <<>>
       THEN /\ pc' = [pc EXCEPT ![c] = "idle"]
            /\ loc' = [loc EXCEPT ![c] = NoLoc]
            /\ resp' = [resp EXCEPT ![c] =
                          [ErrorResp("signup", 409, "conflict") EXCEPT
                             !.mailAddress = loc[c].mailRaw]]
       ELSE /\ \E id \in FreshUuids :
                 loc' = [loc EXCEPT ![c].userId = id, ![c].createdAt = now]
            /\ pc' = [pc EXCEPT ![c] = "s_user"]
            /\ UNCHANGED resp
  /\ UNCHANGED <<store, session, now, ADMIN_TOKEN, page, startup, served>>

\* the catch block of the handler: 500 Internal Server Error
SignupFail(c) ==
  /\ pc' = [pc EXCEPT ![c] = "idle"]
  /\ loc' = [loc EXCEPT ![c] = NoLoc]
  /\ resp' = [resp EXCEPT ![c] = ErrorResp("signup", 500, "Internal Server Error")]

\* INSERT INTO users (id, stamps, isAdmin) VALUES (?, 0, 0)
SignupUser(c) ==
  /\ pc[c] = "s_user"
  /\ IF loc[c].userId \in DOMAIN users
       THEN SignupFail(c) /\ UNCHANGED users
       ELSE /\ users' = users @@ (loc[c].userId :> [stamps |-> 0, isAdmin |-> FALSE])
            /\ pc' = [pc EXCEPT ![c] = "s_profile"]
            /\ UNCHANGED <<loc, resp>>
  /\ UNCHANGED <<stamp_events, user_profiles, auth_identities, session, now,
                 ADMIN_TOKEN, page, startup, served>>

SignupProfileRow(c) ==
  [username |-> loc[c].username, mailAddress |-> loc[c].mail,
   description |-> loc[c].profile[1].description, job |-> loc[c].profile[1].job,
   hobbies |-> loc[c].profile[1].hobbies, updatedAt |-> loc[c].createdAt]

\* (variant) signup leaves the profile row to the first profile update
SignupProfileLater(c) ==
  /\ pc[c] = "s_profile"
  /\ pc' = [pc EXCEPT ![c] = "s_identity"]
  /\ UNCHANGED <<store, session, loc, resp, now, ADMIN_TOKEN, page, startup, served>>

\* INSERT INTO user_profiles (...)
SignupProfile(c) ==
  /\ pc[c] = "s_profile"
  /\ IF loc[c].userId \in DOMAIN user_profiles
       THEN SignupFail(c) /\ UNCHANGED user_profiles
       ELSE /\ user_profiles' = user_profiles @@ (loc[c].userId :> SignupProfileRow(c))
            /\ pc' = [pc EXCEPT ![c] = "s_identity"]
            /\ UNCHANGED <<loc, resp>>
  /\ UNCHANGED <<users, stamp_events, auth_identities, session, now, ADMIN_TOKEN, page, startup,
                 served>>

\* mutant: the table is declared without the UNIQUE constraint
UniqueViolationOff(provider, providerKey) == FALSE

\* UNIQUE(provider, providerKey) of auth_identities
UniqueViolation(provider, providerKey) == getAuthIdentity(provider, providerKey) # <<>>

\* INSERT INTO auth_identities (...); then the session is set and the client
\* redirected to /user
SignupIdentity(c) ==
  /\ pc[c] = "s_identity"
  /\ IF UniqueViolation("local", loc[c].mail)
       THEN SignupFail(c) /\ UNCHANGED <<auth_identities, session>>
       ELSE /\ auth_identities' =
                 Append(auth_identities,
                        [userId |-> loc[c].userId, provider |-> "local",
                         providerKey |-> loc[c].mail, createdAt |-> loc[c].createdAt])
            /\ session' = [session EXCEPT ![c] = loc[c].userId]
            /\ pc' = [pc EXCEPT ![c] = "idle"]
            /\ loc' = [loc EXCEPT ![c] = NoLoc]
            /\ resp' = [resp EXCEPT ![c] =
                          [NoResp EXCEPT !.op = "signup", !.status = 302,
                                         !.id = loc[c].userId]]
  /\ UNCHANGED <<users, stamp_events, user_profiles, now, ADMIN_TOKEN, page, startup, served>>

\* --------------------------------------------------------- POST /api/login
LoginStart(c, username, mailAddress) ==
  /\ pc[c] = "idle"
  /\ IF normalizeUsername(username) = <<>> \/ normalizeMail(mailAddress) = <<>>
       THEN Reject(c, [ErrorResp("login", 302, "not_found") EXCEPT
                         !.mailAddress = mailAddress])
       ELSE /\ pc' = [pc EXCEPT ![c] = "l_identity"]
            /\ loc' = [loc EXCEPT ![c] =
                         [NoLoc EXCEPT !.username = normalizeUsername(username),
                                       !.mail = normalizeMail(mailAddress),
                                       !.usernameRaw = username,
                                       !.mailRaw = mailAddress]]
            /\ resp' = [resp EXCEPT ![c] = NoResp]
            /\ UNCHANGED <<store, session, now, ADMIN_TOKEN, page, startup, served>>

\* await getAuthIdentity("local", mailAddress)
LoginIdentity(c) ==
  /\ pc[c] = "l_identity"
  /\ LET found == getAuthIdentity("local", loc[c].mail)
     IN IF found = <<>>
          THEN /\ pc' = [pc EXCEPT ![c] = "idle"]
               /\ loc' = [loc EXCEPT ![c] = NoLoc]
               /\ resp' = [resp EXCEPT ![c] =
                             [ErrorResp("login", 302, "not_found") EXCEPT
                                !.mailAddress = loc[c].mailRaw]]
          ELSE /\ pc' = [pc EXCEPT ![c] = "l_profile"]
               /\ loc' = [loc EXCEPT ![c].userId = found[1].userId]
               /\ UNCHANGED resp
  /\ UNCHANGED <<store, session, now, ADMIN_TOKEN, page, startup, served>>

\* (variant) a successful login is rewarded with a stamp
LoginProfileBonus(c) ==
  /\ pc[c] = "l_profile"
  /\ LET profile == getProfileByUserId(loc[c].userId)
     IN IF profile # <<>> /\ normalizeUsername(profile[1].username) # loc[c].username
          THEN /\ resp' = [resp EXCEPT ![c] =
                             [ErrorResp("login", 302, "username_mismatch") EXCEPT
                                !.mailAddress = loc[c].mailRaw]]
               /\ UNCHANGED <<session, users>>
          ELSE /\ session' = [session EXCEPT ![c] = loc[c].userId]
               /\ users' = UpdateStamps(users, loc[c].userId,
                                        GrantValue(users[loc[c].userId].stamps))
               /\ resp' = [resp EXCEPT ![c] =
                             [NoResp EXCEPT !.op = "login", !.status = 302,
                                            !.id = loc[c].userId,
                                            !.mailAddress = loc[c].mailRaw]]
  /\ pc' = [pc EXCEPT ![c] = "idle"]
  /\ loc' = [loc EXCEPT ![c] = NoLoc]
  /\ UNCHANGED <<stamp_events, user_profiles, auth_identities, now, ADMIN_TOKEN, page,
                 startup, served>>

\* await getProfileByUserId(identity.userId); the user name cross-check
LoginProfile(c) ==
  /\ pc[c] = "l_profile"
  /\ LET profile == getProfileByUserId(loc[c].userId)
     IN IF profile # <<>> /\ normalizeUsername(profile[1].username) # loc[c].username
          THEN /\ resp' = [resp EXCEPT ![c] =
                             [ErrorResp("login", 302, "username_mismatch") EXCEPT
                                !.mailAddress = loc[c].mailRaw]]
               /\ UNCHANGED session
          ELSE /\ session' = [session EXCEPT ![c] = loc[c].userId]
               /\ resp' = [resp EXCEPT ![c] =
                             [NoResp EXCEPT !.op = "login", !.status = 302,
                                            !.id = loc[c].userId,
                                            !.mailAddress = loc[c].mailRaw]]
  /\ pc' = [pc EXCEPT ![c] = "idle"]
  /\ loc' = [loc EXCEPT ![c] = NoLoc]
  /\ UNCHANGED <<store, now, ADMIN_TOKEN, page, startup, served>>

\* ------------------------------------------ GET /auth/google/callback
\* profile.displayName || "Googleユーザー"
DefaultDisplayName == <<"G">>

\* the catch block of the verify callback: done(error), answered 500
OAuthFail(c) ==
  /\ pc' = [pc EXCEPT ![c] = "idle"]
  /\ loc' = [loc EXCEPT ![c] = NoLoc]
  /\ resp' = [resp EXCEPT ![c] =
                [ErrorResp("oauth", 500, "Internal Server Error") EXCEPT
                   !.mailAddress = loc[c].providerKey]]

\* done(null, {id}); the route handler stores the id in the session and
\* redirects to /user
OAuthDone(c, id) ==
  /\ session' = [session EXCEPT ![c] = id]
  /\ pc' = [pc EXCEPT ![c] = "idle"]
  /\ loc' = [loc EXCEPT ![c] = NoLoc]
  /\ resp' = [resp EXCEPT ![c] =
                [NoResp EXCEPT !.op = "oauth", !.status = 302, !.id = id,
                               !.mailAddress = loc[c].providerKey]]

\* the verify callback is entered with the profile Google returned
OAuthStart(c, providerKey, displayName, email) ==
  /\ pc[c] = "idle"
  /\ \/ getAuthIdentity("google", providerKey) # <<>>
     \/ Cardinality(Uuids \ DOMAIN users)
          > Cardinality({d \in Clients : pc[d] \in CreatorPcs})
  /\ pc' = [pc EXCEPT ![c] = "o_check"]
  /\ loc' = [loc EXCEPT ![c] =
               [NoLoc EXCEPT !.providerKey = providerKey,
                             !.username = IF displayName = <<>> THEN DefaultDisplayName
                                          ELSE displayName,
                             !.mail = email]]
  /\ resp' = [resp EXCEPT ![c] = NoResp]
  /\ UNCHANGED <<store, session, now, ADMIN_TOKEN, page, startup, served>>

\* await getAuthIdentity("google", providerKey); then randomUUID() and nowIso()
OAuthCheck(c) ==
  /\ pc[c] = "o_check"
  /\ LET found == getAuthIdentity("google", loc[c].providerKey)
     IN IF found # <<>>
          THEN OAuthDone(c, found[1].userId)
          ELSE /\ \E id \in FreshUuids :
                    loc' = [loc EXCEPT ![c].userId = id, ![c].createdAt = now]
               /\ pc' = [pc EXCEPT ![c] = "o_user"]
               /\ UNCHANGED <<resp, session>>
  /\ UNCHANGED <<store, now, ADMIN_TOKEN, page, startup, served>>

\* INSERT INTO users (id, stamps, isAdmin) VALUES (?, 0, 0)
OAuthUser(c) ==
  /\ pc[c] = "o_user"
  /\ IF loc[c].userId \in DOMAIN users
       THEN OAuthFail(c) /\ UNCHANGED users
       ELSE /\ users' = users @@ (loc[c].userId :> [stamps |-> 0, isAdmin |-> FALSE])
            /\ pc' = [pc EXCEPT ![c] = "o_profile"]
            /\ UNCHANGED <<loc, resp>>
  /\ UNCHANGED <<stamp_events, user_profiles, auth_identities, session, now,
                 ADMIN_TOKEN, page, startup, served>>

\* the profile is seeded with the display name and the address as Google gave it
OAuthProfileRow(c) ==
  [username |-> loc[c].username, mailAddress |-> loc[c].mail,
   description |-> <<>>, job |-> <<>>, hobbies |-> <<>>, updatedAt |-> loc[c].createdAt]

\* INSERT INTO user_profiles (...)
OAuthProfile(c) ==
  /\ pc[c] = "o_profile"
  /\ IF loc[c].userId \in DOMAIN user_profiles
       THEN OAuthFail(c) /\ UNCHANGED user_profiles
       ELSE /\ user_profiles' = user_profiles @@ (loc[c].userId :> OAuthProfileRow(c))
            /\ pc' = [pc EXCEPT ![c] = "o_identity"]
            /\ UNCHANGED <<loc, resp>>
  /\ UNCHANGED <<users, stamp_events, auth_identities, session, now, ADMIN_TOKEN, page, startup,
                 served>>

\* INSERT INTO auth_identities (...); done(null, {id: userId})
OAuthIdentity(c) ==
  /\ pc[c] = "o_identity"
  /\ IF UniqueViolation("google", loc[c].providerKey)
       THEN OAuthFail(c) /\ UNCHANGED <<auth_identities, session>>
       ELSE /\ auth_identities' =
                 Append(auth_identities,
                        [userId |-> loc[c].userId, provider |-> "google",
                         providerKey |-> loc[c].providerKey,
                         createdAt |-> loc[c].createdAt])
            /\ OAuthDone(c, loc[c].userId)
  /\ UNCHANGED <<users, stamp_events, user_profiles, now, ADMIN_TOKEN, page, startup, served>>

\* ------------------------------------------------------- POST /api/profile
\* UPDATE user_profiles SET username, description, job, hobbies, updatedAt
UpdateProfileRow(row, username, fields, updatedAt) ==
  [row EXCEPT !.username = username, !.description = fields.description,
              !.job = fields.job, !.hobbies = fields.hobbies,
              !.updatedAt = updatedAt]

\* profile && profile.mailAddress && mailAddressInput, and the addresses differ
MailChanged(existing, mailAddressInput) ==
  /\ existing # <<>>
  /\ existing[1].mailAddress # <<>>
  /\ mailAddressInput # <<>>
  /\ normalizeMail(existing[1].mailAddress) # mailAddressInput

\* requireLoginApi, then the request waits for getProfileByUserId
ProfileStart(c, username, mailAddress, description, job, hobbies) ==
  /\ pc[c] = "idle"
  /\ IF session[c] = ""
       THEN Reject(c, ErrorResp("profile", 401, "Unauthorized."))
       ELSE /\ pc' = [pc EXCEPT ![c] = "f_read"]
            /\ loc' = [loc EXCEPT ![c] =
                         [NoLoc EXCEPT !.userId = session[c],
                                       !.username = normalizeUsername(username),
                                       !.usernameRaw = username,
                                       !.mail = normalizeMail(mailAddress),
                                       !.mailRaw = mailAddress,
                                       !.profile = <<[description |-> description,
                                                      job |-> job,
                                                      hobbies |-> hobbies]>>]]
            /\ resp' = [resp EXCEPT ![c] = NoResp]
            /\ UNCHANGED <<store, session, now, ADMIN_TOKEN, page, startup, served>>

\* await getProfileByUserId(req.session.userId); the two checks; nowIso()
ProfileRead(c) ==
  /\ pc[c] = "f_read"
  /\ LET existing == getProfileByUserId(loc[c].userId)
     IN IF loc[c].username = <<>>
          THEN /\ pc' = [pc EXCEPT ![c] = "idle"]
               /\ resp' = [resp EXCEPT ![c] =
                             [ErrorResp("profile", 400, "username_required") EXCEPT
                                !.id = loc[c].userId, !.mailAddress = loc[c].mailRaw]]
               /\ loc' = [loc EXCEPT ![c] = NoLoc]
        ELSE IF MailChanged(existing, loc[c].mail)
          THEN /\ pc' = [pc EXCEPT ![c] = "idle"]
               /\ resp' = [resp EXCEPT ![c] =
                             [ErrorResp("profile", 400, "mail_immutable") EXCEPT
                                !.id = loc[c].userId, !.mailAddress = loc[c].mailRaw]]
               /\ loc' = [loc EXCEPT ![c] = NoLoc]
        ELSE /\ pc' = [pc EXCEPT ![c] = "f_write"]
             /\ loc' = [loc EXCEPT ![c].existing = existing, ![c].createdAt = now]
             /\ UNCHANGED resp
  /\ UNCHANGED <<store, session, now, ADMIN_TOKEN, page, startup, served>>

\* profile && profile.mailAddress ? profile.mailAddress : mailAddressInput
NextMail(existing, mailAddressInput) ==
  IF existing # <<>> /\ existing[1].mailAddress # <<>>
    THEN existing[1].mailAddress
    ELSE mailAddressInput

ProfileInsertRow(c) ==
  [username |-> loc[c].username,
   mailAddress |-> NextMail(loc[c].existing, loc[c].mail),
   description |-> loc[c].profile[1].description, job |-> loc[c].profile[1].job,
   hobbies |-> loc[c].profile[1].hobbies, updatedAt |-> loc[c].createdAt]

\* the catch block of the handler: 500 Internal Server Error
ProfileFail(c) ==
  /\ pc' = [pc EXCEPT ![c] = "idle"]
  /\ loc' = [loc EXCEPT ![c] = NoLoc]
  /\ resp' = [resp EXCEPT ![c] = ErrorResp("profile", 500, "Internal Server Error")]

\* the page answered with 200: it shows nextMail, whatever the row holds
ProfileSaved(c) ==
  /\ pc' = [pc EXCEPT ![c] = "idle"]
  /\ loc' = [loc EXCEPT ![c] = NoLoc]
  /\ resp' = [resp EXCEPT ![c] =
                [NoResp EXCEPT !.op = "profile", !.status = 200, !.id = loc[c].userId,
                               !.mailAddress = NextMail(loc[c].existing, loc[c].mail)]]

\* await runDb(UPDATE ...) when a profile was read, await runDb(INSERT ...)
\* when none was; res.status(200)
ProfileWrite(c) ==
  /\ pc[c] = "f_write"
  /\ LET id == loc[c].userId
     IN IF loc[c].existing # <<>>
          THEN /\ user_profiles' =
                    IF id \in DOMAIN user_profiles
                      THEN [user_profiles EXCEPT ![id] =
                              UpdateProfileRow(@, loc[c].username, loc[c].profile[1],
                                               loc[c].createdAt)]
                      ELSE user_profiles
               /\ ProfileSaved(c)
        ELSE IF id \in DOMAIN user_profiles
          THEN ProfileFail(c) /\ UNCHANGED user_profiles
        ELSE /\ user_profiles' = user_profiles @@ (id :> ProfileInsertRow(c))
             /\ ProfileSaved(c)
  /\ UNCHANGED <<users, stamp_events, auth_identities, session, now, ADMIN_TOKEN, page, startup,
                 served>>

\* ------------------------------------------- GET /api/me, GET /api/user/:id
EventsOf(userId) == SelectSeq(stamp_events, LAMBDA e : e.userId = userId)

\* (variant) the MAX query without its WHERE clause: the newest createdAt of
\* any user
MaxCreatedAtAllUsers(userId) ==
  IF stamp_events = <<>> THEN <<>>
  ELSE <<CHOOSE t \in {stamp_events[i].createdAt : i \in 1..Len(stamp_events)} :
           \A i \in 1..Len(stamp_events) : stamp_events[i].createdAt <= t>>

\* SELECT MAX(createdAt) ... WHERE userId = ?  (NULL when the user has no event)
MaxCreatedAt(userId) ==
  LET E == EventsOf(userId)
  IN IF E = <<>> THEN <<>>
     ELSE <<CHOOSE t \in {E[i].createdAt : i \in 1..Len(E)} :
              \A i \in 1..Len(E) : E[i].createdAt <= t>>

EventView(e) == [eventType |-> e.eventType, reason |-> e.reason, createdAt |-> e.createdAt]

\* (variant) ORDER BY createdAt ASC: the oldest rows of the user, oldest first
RecentEventsAscending(userId) ==
  LET E == EventsOf(userId)
      n == Len(E)
      k == Min(RecentLimit, n)
      views == {EventView(E[i]) : i \in 1..n}
      Stored(v) == Cardinality({i \in 1..n : EventView(E[i]) = v})
  IN {rows \in [1..k -> views] :
        LET Returned(v) == Cardinality({i \in 1..k : rows[i] = v})
        IN /\ \A i, j \in 1..k : i < j => rows[i].createdAt <= rows[j].createdAt
           /\ \A v \in views : Returned(v) <= Stored(v)
           /\ \A v \in views :
                (k > 0 /\ v.createdAt < rows[k].createdAt) => Returned(v) = Stored(v)}

\* SELECT eventType, reason, createdAt ... WHERE userId = ? ORDER BY createdAt DESC
\* LIMIT 3: every result SQL allows (the order of rows with equal createdAt, and
\* which of them the limit keeps, is not determined by the query).  A result is
\* a sequence of min(3, n) stored rows, newest first, that leaves out no row
\* newer than its last one.
RecentEvents(userId) ==
  LET E == EventsOf(userId)
      n == Len(E)
      k == Min(RecentLimit, n)
      views == {EventView(E[i]) : i \in 1..n}
      Stored(v) == Cardinality({i \in 1..n : EventView(E[i]) = v})
  IN {rows \in [1..k -> views] :
        LET Returned(v) == Cardinality({i \in 1..k : rows[i] = v})
        IN /\ \A i, j \in 1..k : i < j => rows[i].createdAt >= rows[j].createdAt
           /\ \A v \in views : Returned(v) <= Stored(v)
           /\ \A v \in views :
                (k > 0 /\ v.createdAt > rows[k].createdAt) => Returned(v) = Stored(v)}

ProjStart(c, op, id, withProfile) ==
  /\ pc' = [pc EXCEPT ![c] = "p_user"]
  /\ loc' = [loc EXCEPT ![c] = [NoLoc EXCEPT !.userId = id, !.withProfile = withProfile]]
  /\ resp' = [resp EXCEPT ![c] = [NoResp EXCEPT !.op = op]]
  /\ UNCHANGED <<store, session, now, ADMIN_TOKEN, page, startup, served>>

MeStart(c) ==
  /\ pc[c] = "idle"
  /\ IF session[c] = ""
       THEN Reject(c, ErrorResp("me", 401, "Unauthorized."))
       ELSE ProjStart(c, "me", session[c], TRUE)

\* (variant) any logged-in client may read any user
UserStartAnyId(c, id) ==
  /\ pc[c] = "idle"
  /\ IF session[c] = ""
       THEN Reject(c, ErrorResp("user", 401, "Unauthorized."))
       ELSE ProjStart(c, "user", id, FALSE)

UserStart(c, id) ==
  /\ pc[c] = "idle"
  /\ IF session[c] = ""
       THEN Reject(c, ErrorResp("user", 401, "Unauthorized."))
     ELSE IF id # session[c]
       THEN Reject(c, ErrorResp("user", 403, "Forbidden."))
     ELSE ProjStart(c, "user", id, FALSE)

\* await getUserById(...)
ProjUser(c) ==
  /\ pc[c] = "p_user"
  /\ IF loc[c].userId \in DOMAIN users
       THEN /\ loc' = [loc EXCEPT ![c].stamps = clampStamps(users[loc[c].userId].stamps),
                                  ![c].isAdmin = users[loc[c].userId].isAdmin]
            /\ pc' = [pc EXCEPT ![c] = IF loc[c].withProfile THEN "p_profile" ELSE "p_last"]
            /\ UNCHANGED resp
       ELSE /\ pc' = [pc EXCEPT ![c] = "idle"]
            /\ loc' = [loc EXCEPT ![c] = NoLoc]
            /\ resp' = [resp EXCEPT ![c] = ErrorResp(resp[c].op, 404, "User not found.")]
  /\ UNCHANGED <<store, session, now, ADMIN_TOKEN, page, startup, served>>

\* await getProfileByUserId(user.id)
ProjProfile(c) ==
  /\ pc[c] = "p_profile"
  /\ loc' = [loc EXCEPT ![c].profile = getProfileByUserId(loc[c].userId)]
  /\ pc' = [pc EXCEPT ![c] = "p_last"]
  /\ UNCHANGED <<store, session, resp, now, ADMIN_TOKEN, page, startup, served>>

\* await getDb("SELECT MAX(createdAt) ...")
ProjLast(c) ==
  /\ pc[c] = "p_last"
  /\ loc' = [loc EXCEPT ![c].last = MaxCreatedAt(loc[c].userId)]
  /\ pc' = [pc EXCEPT ![c] = "p_events"]
  /\ UNCHANGED <<store, session, resp, now, ADMIN_TOKEN, page, startup, served>>

\* (variant) the events query consumes what it returns: the rows of the user
\* are deleted once read
ProjEventsConsume(c) ==
  /\ pc[c] = "p_events"
  /\ \E rows \in RecentEvents(loc[c].userId) :
       resp' = [resp EXCEPT ![c] =
                  [NoResp EXCEPT !.op = resp[c].op, !.status = 200,
                                 !.id = loc[c].userId, !.stamps = loc[c].stamps,
                                 !.isAdmin = loc[c].isAdmin,
                                 !.lastUpdatedAt = loc[c].last,
                                 !.recentEvents = rows,
                                 !.profile = loc[c].profile]]
  /\ stamp_events' = SelectSeq(stamp_events, LAMBDA e : e.userId # loc[c].userId)
  /\ pc' = [pc EXCEPT ![c] = "idle"]
  /\ loc' = [loc EXCEPT ![c] = NoLoc]
  /\ UNCHANGED <<users, user_profiles, auth_identities, session, now, ADMIN_TOKEN, page, startup, served>>

\* await allDb("SELECT ... ORDER BY createdAt DESC LIMIT 3"); res.json(...)
ProjEvents(c) ==
  /\ pc[c] = "p_events"
  /\ \E rows \in RecentEvents(loc[c].userId) :
       resp' = [resp EXCEPT ![c] =
                  [NoResp EXCEPT !.op = resp[c].op, !.status = 200,
                                 !.id = loc[c].userId, !.stamps = loc[c].stamps,
                                 !.isAdmin = loc[c].isAdmin,
                                 !.lastUpdatedAt = loc[c].last,
                                 !.recentEvents = rows,
                                 !.profile = loc[c].profile]]
  /\ pc' = [pc EXCEPT ![c] = "idle"]
  /\ loc' = [loc EXCEPT ![c] = NoLoc]
  /\ UNCHANGED <<store, session, now, ADMIN_TOKEN, page, startup, served>>

\* ------------------------------------ the cookie-identified server.js
\* In this version of the server a client is identified by its stampUserId
\* cookie, which session[c] holds ("" when the client has no cookie); there is
\* no login, no profile and no identity.  POST /api/admin/stamp, the reset
\* statements and the two status queries are as above.

\* getUser rejected: each caller's catch block answers 500
GetUserReject(c) ==
  /\ pc' = [pc EXCEPT ![c] = "idle"]
  /\ loc' = [loc EXCEPT ![c] = NoLoc]
  /\ resp' = [resp EXCEPT ![c] =
                [ErrorResp(resp[c].op, 500,
                           IF loc[c].caller = "page" THEN "Internal Server Error"
                           ELSE "Failed to load user.") EXCEPT
                   !.id = loc[c].userId]]
  /\ session' = IF loc[c].setCookie # <<>>
                  THEN [session EXCEPT ![c] = loc[c].setCookie[1]]
                  ELSE session

\* getUser resolved with user: the caller goes on
GetUserResolve(c, user) ==
  CASE loc[c].caller = "page" ->
         /\ pc' = [pc EXCEPT ![c] = "idle"]
         /\ loc' = [loc EXCEPT ![c] = NoLoc]
         /\ resp' = [resp EXCEPT ![c] =
                       [NoResp EXCEPT !.op = "page", !.status = 200,
                                      !.id = user.id, !.stamps = user.stamps]]
         /\ session' = IF loc[c].setCookie # <<>>
                         THEN [session EXCEPT ![c] = loc[c].setCookie[1]]
                         ELSE session
    [] loc[c].caller = "api" ->
         /\ pc' = [pc EXCEPT ![c] = "p_last"]
         /\ loc' = [loc EXCEPT ![c].stamps = user.stamps, ![c].isAdmin = user.isAdmin]
         /\ UNCHANGED <<resp, session>>
    [] OTHER ->
         /\ pc' = [pc EXCEPT ![c] = "r_update"]
         /\ UNCHANGED <<loc, resp, session>>

\* db.get("SELECT id, stamps, isAdmin FROM users WHERE id = ?") and its callback
GetUserSelect(c) ==
  /\ pc[c] = "u_select"
  /\ LET id == loc[c].userId
     IN IF id \in DOMAIN users
          THEN GetUserResolve(c, [id |-> id, stamps |-> clampStamps(users[id].stamps),
                                  isAdmin |-> users[id].isAdmin])
          ELSE /\ pc' = [pc EXCEPT ![c] = "u_insert"]
               /\ UNCHANGED <<loc, resp, session>>
  /\ UNCHANGED <<store, now, ADMIN_TOKEN, page, startup, served>>

\* db.run("INSERT INTO users (id, stamps, isAdmin) VALUES (?, 0, 0)") and its
\* callback; the PRIMARY KEY refuses an id that got a row in the meantime
GetUserInsert(c) ==
  /\ pc[c] = "u_insert"
  /\ LET id == loc[c].userId
     IN IF id \in DOMAIN users
          THEN GetUserReject(c) /\ UNCHANGED users
          ELSE /\ users' = users @@ (id :> [stamps |-> 0, isAdmin |-> FALSE])
               /\ GetUserResolve(c, [id |-> id, stamps |-> 0, isAdmin |-> FALSE])
  /\ UNCHANGED <<stamp_events, user_profiles, auth_identities, now, ADMIN_TOKEN, page, startup,
                 served>>

\* a request enters getUser(id)
GetUserCall(c, op, id, caller, setCookie) ==
  /\ pc' = [pc EXCEPT ![c] = "u_select"]
  /\ loc' = [loc EXCEPT ![c] =
               [NoLoc EXCEPT !.userId = id, !.caller = caller, !.setCookie = setCookie]]
  /\ resp' = [resp EXCEPT ![c] = [NoResp EXCEPT !.op = op]]
  /\ UNCHANGED <<store, session, now, ADMIN_TOKEN, page, startup, served>>

\* (variant) the cookie, once there, wins over ?user= and is never set again
UserPageStartFixed(c, queryUserId) ==
  /\ pc[c] = "idle"
  /\ LET userId == IF session[c] # "" THEN session[c]
                   ELSE IF queryUserId # "" THEN queryUserId
                   ELSE GuestId
     IN GetUserCall(c, "page", userId, "page",
                    IF session[c] = "" THEN <<userId>> ELSE <<>>)

\* GET /user: ?user= wins over the cookie, the cookie over "guest"; the cookie
\* is set when there was none or when ?user= was given
UserPageStart(c, queryUserId) ==
  /\ pc[c] = "idle"
  /\ LET userId == IF queryUserId # "" THEN queryUserId
                   ELSE IF session[c] # "" THEN session[c]
                   ELSE GuestId
     IN GetUserCall(c, "page", userId, "page",
                    IF session[c] = "" \/ queryUserId # "" THEN <<userId>> ELSE <<>>)

\* GET /api/user/:id of the cookie version: no check of the caller
ApiUserStart(c, id) ==
  /\ pc[c] = "idle"
  /\ GetUserCall(c, "user", id, "api", <<>>)

\* POST /api/reset of the cookie version
CookieResetStart(c, bodyUserId, limit) ==
  /\ pc[c] = "idle"
  /\ IF session[c] = ""
       THEN Reject(c, ErrorResp("reset", 401, "User is not identified."))
     ELSE IF bodyUserId # "" /\ bodyUserId # session[c]
       THEN Reject(c, ErrorResp("reset", 403, "User mismatch."))
     ELSE /\ LedgerLoad < limit
          /\ GetUserCall(c, "reset", session[c], "reset", <<>>)

\* ------------------------------------------- the user page (client script)
\* page[c] is the page GET /user served to the browser of client c: the script's
\* variables currentStamps and lastUpdatedAt, whether the reset button is shown,
\* the request whose answer the script awaits (fetching), the milestone signals
\* it has shown (toasts, one entry <<value, userId>> per setToast call) and the
\* browser's localStorage, which outlives the page.
TOTAL_STAMPS == 13

milestones == <<5, 10>>

\* the log of signals keeps the first ToastCap entries
ToastCap == 3

clamp(value) == Min(TOTAL_STAMPS, Max(0, value))

\* "milestone_shown_" + value + "_" + userId
storageKey(value, userId) == <<value, userId>>

\* (variant) the signal is shown on every crossing, whatever localStorage holds
renderNoFlag(p, data, hasPrevious, previousStamps) ==
  LET stamps == clamp(data.stamps)
      reached == {i \in 1..Len(milestones) :
                    /\ hasPrevious
                    /\ previousStamps < milestones[i]
                    /\ stamps >= milestones[i]}
      shown == SelectSeq(milestones, LAMBDA value : \E i \in reached : milestones[i] = value)
      log == p.toasts \o [i \in 1..Len(shown) |-> storageKey(shown[i], p.userId)]
  IN [p EXCEPT !.resetButton = stamps >= TOTAL_STAMPS,
               !.localStorage = @ \cup {storageKey(milestones[i], p.userId) : i \in reached},
               !.toasts = SubSeq(log, 1, Min(Len(log), ToastCap)),
               !.currentStamps = stamps,
               !.lastUpdatedAt = data.lastUpdatedAt]

\* render(data, previousStamps); hasPrevious is typeof previousStamps === "number"
render(p, data, hasPrevious, previousStamps) ==
  LET stamps == clamp(data.stamps)
      reached == {i \in 1..Len(milestones) :
                    /\ hasPrevious
                    /\ previousStamps < milestones[i]
                    /\ stamps >= milestones[i]
                    /\ storageKey(milestones[i], p.userId) \notin p.localStorage}
      shown == SelectSeq(milestones, LAMBDA value : \E i \in reached : milestones[i] = value)
      log == p.toasts \o [i \in 1..Len(shown) |-> storageKey(shown[i], p.userId)]
  IN [p EXCEPT !.resetButton = stamps >= TOTAL_STAMPS,
               !.localStorage = @ \cup {storageKey(milestones[i], p.userId) : i \in reached},
               !.toasts = SubSeq(log, 1, Min(Len(log), ToastCap)),
               !.currentStamps = stamps,
               !.lastUpdatedAt = data.lastUpdatedAt]

\* GET /user and the script's first lines: without a session the browser is sent
\* to /login and without a user row it gets 404; otherwise the page is rendered
\* from data-stamps with no previous count and the first fetchStatus is started
\* with forceRender
pageLoad(c) ==
  /\ pc[c] = "idle"
  /\ page[c].fetching = ""
  /\ IF session[c] = "" \/ session[c] \notin DOMAIN users
       THEN /\ page' = [page EXCEPT ![c] = [NoPage EXCEPT !.toasts = page[c].toasts,
                                                          !.localStorage = page[c].localStorage]]
            /\ UNCHANGED resp
       ELSE /\ page' = [page EXCEPT ![c] =
                          [render([NoPage EXCEPT !.open = TRUE,
                                                 !.userId = session[c],
                                                 !.toasts = page[c].toasts,
                                                 !.localStorage = page[c].localStorage],
                                  [stamps |-> clampStamps(users[session[c]].stamps),
                                   lastUpdatedAt |-> <<>>],
                                  FALSE, 0)
                             EXCEPT !.fetching = "force"]]
            /\ resp' = [resp EXCEPT ![c] = NoResp]
  /\ UNCHANGED <<store, session, pc, loc, now, ADMIN_TOKEN, served, startup>>

\* the 5 second timer (forceRender false) or the refresh button (forceRender
\* true) calls fetchStatus
fetchStatus(c, forceRender) ==
  /\ pc[c] = "idle"
  /\ page[c].open
  /\ page[c].fetching = ""
  /\ page' = [page EXCEPT ![c].fetching = IF forceRender THEN "force" ELSE "poll"]
  /\ resp' = [resp EXCEPT ![c] = NoResp]
  /\ UNCHANGED <<store, session, pc, loc, now, ADMIN_TOKEN, served, startup>>

\* fetch("/api/me") reaches the server
fetchMe(c) ==
  /\ page[c].fetching \in {"poll", "force"}
  /\ resp[c] = NoResp
  /\ MeStart(c)

\* the rest of fetchStatus, which consumes the answer: an error answer is dropped;
\* otherwise the page is rendered when forced or when lastUpdatedAt differs, and
\* else only currentStamps and lastUpdatedAt are taken over
fetchStatusDone(c) ==
  /\ page[c].fetching \in {"poll", "force"}
  /\ pc[c] = "idle"
  /\ resp[c].op = "me" /\ resp[c].status # 0
  /\ page' = [page EXCEPT ![c] =
       IF resp[c].status # 200
         THEN [page[c] EXCEPT !.fetching = ""]
       ELSE IF page[c].fetching = "force" \/ resp[c].lastUpdatedAt # page[c].lastUpdatedAt
         THEN [render(page[c], resp[c], TRUE, page[c].currentStamps)
                 EXCEPT !.fetching = ""]
       ELSE [page[c] EXCEPT !.currentStamps = clamp(resp[c].stamps),
                            !.lastUpdatedAt = resp[c].lastUpdatedAt,
                            !.fetching = ""]]
  /\ resp' = [resp EXCEPT ![c] = NoResp]
  /\ UNCHANGED <<store, session, pc, loc, now, ADMIN_TOKEN, served, startup>>

\* a click on the reset button, which is there while the last rendering showed a
\* full card
resetClick(c) ==
  /\ pc[c] = "idle"
  /\ page[c].open
  /\ page[c].resetButton
  /\ page[c].fetching = ""
  /\ page' = [page EXCEPT ![c].fetching = "reset"]
  /\ resp' = [resp EXCEPT ![c] = NoResp]
  /\ UNCHANGED <<store, session, pc, loc, now, ADMIN_TOKEN, served, startup>>

\* fetch("/api/reset", {userId}) reaches the server
fetchReset(c, limit) ==
  /\ page[c].fetching = "reset"
  /\ resp[c] = NoResp
  /\ ResetStart(c, page[c].userId, limit)

\* the rest of the click handler: on success the answer is rendered with the
\* browser's own time as lastUpdatedAt and fetchStatus is called with forceRender
resetDone(c) ==
  /\ page[c].fetching = "reset"
  /\ resp[c].op = "reset" /\ resp[c].status # 0
  /\ IF resp[c].status = 200
       THEN /\ page' = [page EXCEPT ![c] =
                          [render(page[c], [stamps |-> resp[c].stamps, lastUpdatedAt |-> <<now>>],
                                  TRUE, page[c].currentStamps)
                             EXCEPT !.fetching = "force"]]
            /\ resp' = [resp EXCEPT ![c] = NoResp]
       ELSE /\ page' = [page EXCEPT ![c].fetching = ""]
            /\ UNCHANGED resp
  /\ UNCHANGED <<store, session, pc, loc, now, ADMIN_TOKEN, served, startup>>

\* ------------------------------------------------------------ process start
\* The statements that db.serialize queues when the module is loaded.  The
\* CREATE TABLE IF NOT EXISTS statements leave an existing store as it is;
\* startup.pc follows the schema check of users: "inspect" (PRAGMA table_info),
\* "alter" (ALTER TABLE ... ADD COLUMN isAdmin), "ensure" (ensureAdminUser),
\* "done".  A users table without the isAdmin column is modelled by
\* startup.hasIsAdmin = FALSE with isAdmin FALSE in every row, the value that
\* ALTER TABLE gives the rows.
ADMIN_USER_ID == "admin"

\* INSERT OR IGNORE INTO users (id, stamps, isAdmin) VALUES (ADMIN_USER_ID, 0, 1)
InsertAdminUser(tbl) ==
  IF ADMIN_USER_ID \in DOMAIN tbl
    THEN tbl
    ELSE tbl @@ (ADMIN_USER_ID :> [stamps |-> 0, isAdmin |-> TRUE])

\* db.all("PRAGMA table_info(users)") and its callback up to the branch
StartupInspect ==
  /\ startup.pc = "inspect"
  /\ startup' = [startup EXCEPT !.pc = IF startup.hasIsAdmin THEN "ensure" ELSE "alter"]
  /\ UNCHANGED <<store, session, pc, loc, resp, now, ADMIN_TOKEN, served, page>>

\* ALTER TABLE users ADD COLUMN isAdmin INTEGER NOT NULL DEFAULT 0
StartupAlter ==
  /\ startup.pc = "alter"
  /\ users' = [id \in DOMAIN users |-> [users[id] EXCEPT !.isAdmin = FALSE]]
  /\ startup' = [pc |-> "ensure", hasIsAdmin |-> TRUE]
  /\ UNCHANGED <<stamp_events, user_profiles, auth_identities, session, pc, loc, resp, now,
                 ADMIN_TOKEN, served, page>>

ensureAdminUser ==
  /\ startup.pc = "ensure"
  /\ users' = InsertAdminUser(users)
  /\ startup' = [startup EXCEPT !.pc = "done"]
  /\ UNCHANGED <<stamp_events, user_profiles, auth_identities, session, pc, loc, resp, now,
                 ADMIN_TOKEN, served, page>>

\* -------------------------------------------------------------- the server
KnownIds == DOMAIN users \cup {GuestId}

\* the administrator names an existing user, the guest id or nothing: an id that
\* randomUUID() has yet to draw cannot be typed in
GrantRequest(c, tokens, userIds, limit) ==
  \E token \in tokens, userId \in userIds :
    /\ userId \in KnownIds \cup {""}
    /\ GrantStart(c, token, userId, limit)

GrantSteps(c) ==
  \/ GrantUpsert(c)
  \/ GrantSelect(c)
  \/ GrantEvent(c)

Grant(c, tokens, userIds, limit) ==
  \/ GrantRequest(c, tokens, userIds, limit)
  \/ GrantSteps(c)

ResetRequest(c, bodyUserIds, limit) ==
  \E bodyUserId \in bodyUserIds : ResetStart(c, bodyUserId, limit)

ResetSteps(c) ==
  \/ ResetGet(c)
  \/ ResetUpdate(c)
  \/ ResetEvent(c)

Reset(c, bodyUserIds, limit) ==
  \/ ResetRequest(c, bodyUserIds, limit)
  \/ ResetSteps(c)

Projection(c, ids) ==
  \/ MeStart(c)
  \/ \E id \in ids : UserStart(c, id)
  \/ ProjUser(c)
  \/ ProjProfile(c)
  \/ ProjLast(c)
  \/ ProjEvents(c)

SignupRequest(c, usernames, mails) ==
  \E username \in usernames, mailAddress \in mails :
    SignupStart(c, username, mailAddress, <<>>, <<>>, <<>>)

SignupSteps(c) ==
  \/ SignupCheck(c)
  \/ SignupUser(c)
  \/ SignupProfile(c)
  \/ SignupIdentity(c)

Signup(c, usernames, mails) ==
  \/ SignupRequest(c, usernames, mails)
  \/ SignupSteps(c)

Login(c, usernames, mails) ==
  \/ \E username \in usernames, mailAddress \in mails : LoginStart(c, username, mailAddress)
  \/ LoginIdentity(c)
  \/ LoginProfile(c)

OAuthRequest(c, providerKeys, displayNames, emails) ==
  \E providerKey \in providerKeys, displayName \in displayNames, email \in emails :
    OAuthStart(c, providerKey, displayName, email)

OAuthSteps(c) ==
  \/ OAuthCheck(c)
  \/ OAuthUser(c)
  \/ OAuthProfile(c)
  \/ OAuthIdentity(c)

OAuth(c, providerKeys, displayNames, emails) ==
  \/ OAuthRequest(c, providerKeys, displayNames, emails)
  \/ OAuthSteps(c)

ProfileRequest(c, usernames, mails, descriptions) ==
  \E username \in usernames, mailAddress \in mails, description \in descriptions :
    ProfileStart(c, username, mailAddress, description, <<>>, <<>>)

ProfileSteps(c) ==
  \/ ProfileRead(c)
  \/ ProfileWrite(c)

Profile(c, usernames, mails, descriptions) ==
  \/ ProfileRequest(c, usernames, mails, descriptions)
  \/ ProfileSteps(c)

GetUserSteps(c) ==
  \/ GetUserSelect(c)
  \/ GetUserInsert(c)

UserPage(c, queryUserIds) ==
  \E queryUserId \in queryUserIds : UserPageStart(c, queryUserId)

ApiUser(c, ids) ==
  \/ \E id \in ids : ApiUserStart(c, id)
  \/ ProjLast(c)
  \/ ProjEvents(c)

CookieResetRequest(c, bodyUserIds, limit) ==
  \E bodyUserId \in bodyUserIds : CookieResetStart(c, bodyUserId, limit)

CookieResetSteps(c) ==
  \/ ResetUpdate(c)
  \/ ResetEvent(c)

\* One registered user (client c1: signup, reset, status polling) and the
\* administrator (client c2: grants), their requests interleaved.
Next ==
  \/ Tick
  \/ Signup("c1", {<<"N">>}, {<<"a">>})
  \/ Reset("c1", {""}, MaxEvents)
  \/ Projection("c1", UserIds)
  \/ Grant("c2", {"secret"}, UserIds, MaxEvents)

Spec == Init /\ [][Next]_vars

\* The counter at its cap: client c1 registers once and resets, client c2 grants
\* to the registered user up to MaxCapEvents times and to the guest id.
ResetsLoad ==
  Cardinality({i \in 1..Len(stamp_events) : stamp_events[i].eventType = "RESET"})
    + Cardinality({c \in Clients : pc[c] \in {"r_get", "r_update", "r_event"}})

GuestLoad ==
  served[GuestId].grant
    + Cardinality({c \in Clients : pc[c] \in {"g_upsert", "g_select"} /\ loc[c].userId = GuestId})

NextCap ==
  \/ session["c1"] = "" /\ SignupRequest("c1", {<<"N">>}, {<<"a">>})
  \/ SignupSteps("c1")
  \/ ResetsLoad < MaxCapResets /\ ResetRequest("c1", {""}, MaxCapEvents)
  \/ ResetSteps("c1")
  \/ GrantRequest("c2", {"secret"}, Uuids, MaxCapEvents)
  \/ GuestLoad < MaxGuestGrants /\ GrantRequest("c2", {"secret"}, {GuestId}, MaxCapEvents)
  \/ GrantSteps("c2")

SpecCap == Init /\ [][NextCap]_vars

\* Registration: both clients sign up, with addresses that differ in case and in
\* surrounding blanks, the same address, another address and blank input.
SignupNames == {<<"N">>, <<" ">>}
SignupMails == {<<"a">>, <<" ", "A">>, <<"b">>, <<" ">>}

NextSignup ==
  \E c \in Clients : Signup(c, SignupNames, SignupMails)

SpecSignup == Init /\ [][NextSignup]_vars

\* The store fails the INSERT INTO stamp_events of a grant or of a reset.  The
\* statement was queued without a callback after the response was sent: the row
\* is not written and nobody is told.
GrantEventFail(c) ==
  /\ pc[c] = "g_event"
  /\ pc' = [pc EXCEPT ![c] = "idle"]
  /\ loc' = [loc EXCEPT ![c] = NoLoc]
  /\ UNCHANGED <<store, session, resp, now, ADMIN_TOKEN, page, startup, served>>

ResetEventFail(c) ==
  /\ pc[c] = "r_event"
  /\ pc' = [pc EXCEPT ![c] = "idle"]
  /\ loc' = [loc EXCEPT ![c] = NoLoc]
  /\ UNCHANGED <<store, session, resp, now, ADMIN_TOKEN, page, startup, served>>

NextFault ==
  \/ Signup("c1", {<<"N">>}, {<<"a">>})
  \/ Reset("c1", {""}, MaxEvents)
  \/ ResetEventFail("c1")
  \/ Grant("c2", {"secret"}, UserIds, MaxEvents)
  \/ GrantEventFail("c2")

SpecFault == Init /\ [][NextFault]_vars

\* Identities: both clients register locally and log in through Google.  The
\* Google account id is the same string as the local address, so the two
\* providers meet on one key.
AuthKeys == {<<"a">>}

NextAuth ==
  \E c \in Clients :
    \/ Signup(c, {<<"N">>}, {<<"a">>})
    \/ OAuth(c, AuthKeys, {<<>>}, {<<"A">>})

SpecAuth == Init /\ [][NextAuth]_vars

\* Google logins only: both clients log in, with the same account and with
\* different accounts, for the first time and again.
OAuthKeys == {<<"g">>, <<"h">>}

NextOAuth ==
  \E c \in Clients : OAuth(c, OAuthKeys, {<<>>, <<"N">>}, {<<"A">>})

SpecOAuth == Init /\ [][NextOAuth]_vars

\* Login: client c1 registers as "N" with address "a" and may rename itself;
\* both clients log in with user names and addresses that match, differ in
\* case or in surrounding blanks, are blank, or are unknown.
LoginNames == {<<"N">>, <<"n">>, <<" ", "N">>, <<" ">>}
LoginMails == {<<"a">>, <<" ", "A">>, <<"b">>}

NextLogin ==
  \/ Signup("c1", {<<"N">>}, {<<"a">>})
  \/ Profile("c1", {<<"n">>}, {<<>>}, {<<>>})
  \/ \E c \in Clients : Login(c, LoginNames, LoginMails)

SpecLogin == Init /\ [][NextLogin]_vars

\* Profiles: client c1 registers locally, client c2 logs in through Google with
\* an account that has an address or none; both save their profile with user
\* names, addresses and descriptions that are blank, equal or different.
ProfileNames == {<<"M">>, <<" ">>}
ProfileMails == {<<>>, <<" ", "A">>, <<"b">>}

NextProfile ==
  \/ Tick
  \/ session["c1"] = "" /\ SignupRequest("c1", {<<"N">>}, {<<"a">>})
  \/ SignupSteps("c1")
  \/ session["c2"] = "" /\ OAuthRequest("c2", {<<"g">>}, {<<>>}, {<<>>, <<"A">>})
  \/ OAuthSteps("c2")
  \/ \E c \in Clients : Profile(c, ProfileNames, ProfileMails, {<<"d">>})

SpecProfile == Init /\ [][NextProfile]_vars

\* The administrator's gate: the server runs with ADMIN_TOKEN set or unset;
\* client c2 sends grants with the right token, a wrong one or none, naming a
\* user, the guest id or nobody, while client c1 registers and resets.
GuardTokens == {"secret", "wrong", ""}
GuardUserIds == UserIds \cup {""}

InitGuard == InitWith({"secret", ""})

NextGuard ==
  \/ session["c1"] = "" /\ SignupRequest("c1", {<<"N">>}, {<<"a">>})
  \/ SignupSteps("c1")
  \/ Reset("c1", {""}, MaxEvents)
  \/ Grant("c2", GuardTokens, GuardUserIds, MaxEvents)

SpecGuard == InitGuard /\ [][NextGuard]_vars

\* The cookie-identified server: both clients open /user, with and without
\* ?user=, poll /api/user/:id and reset the user of their cookie.
CookieIds == {"u1"}

NextCookie ==
  \E c \in Clients :
    \/ UserPage(c, {"", "u1"})
    \/ ApiUser(c, CookieIds)
    \/ GetUserSteps(c)
    \/ CookieResetRequest(c, {""}, MaxEvents)
    \/ CookieResetSteps(c)

SpecCookie == Init /\ [][NextCookie]_vars

\* The writers of the store.  Client c1 uses the login version of the server: it
\* registers, saves its profile and resets, naming nobody or the guest id in
\* the request body.  Client c2 is the administrator, and as a user of the
\* cookie version takes a cookie from /user?user= and resets, naming nobody or
\* somebody else.  Every run of either version alone is a run of this
\* specification.
WriterBodyIds == {"", "u1", GuestId}

NextWriters ==
  \/ session["c1"] = "" /\ SignupRequest("c1", {<<"N">>}, {<<"a">>})
  \/ SignupSteps("c1")
  \/ Profile("c1", {<<"M">>}, {<<>>}, {<<"d">>})
  \/ Reset("c1", WriterBodyIds, MaxWriterEvents)
  \/ Grant("c2", {"secret"}, UserIds, MaxWriterEvents)
  \/ UserPage("c2", {"u1", GuestId})
  \/ GetUserSteps("c2")
  \/ CookieResetRequest("c2", WriterBodyIds, MaxWriterEvents)
  \/ CookieResetSteps("c2")

SpecWriters == Init /\ [][NextWriters]_vars

\* ================================================================== claims
Idle == \A c \in Clients : pc[c] = "idle"

CountEvents(userId, eventType, reason) ==
  Cardinality({i \in 1..Len(stamp_events) :
                 /\ stamp_events[i].userId = userId
                 /\ stamp_events[i].eventType = eventType
                 /\ stamp_events[i].reason = reason})

\* event INSERTs queued by answered requests and not yet executed
QueuedEvents(userId, at) ==
  Cardinality({c \in Clients : pc[c] = at /\ loc[c].userId = userId})

HasReset(userId) ==
  \/ served[userId].reset > 0
  \/ \E c \in Clients : pc[c] \in {"r_get", "r_update", "r_event"} /\ loc[c].userId = userId

\* C1: in every reachable state, under every interleaving of grants and resets,
\* the stored stamps of every user lies in 0..13.
C1_StampsInRange ==
  \A u \in DOMAIN users : 0 <= users[u].stamps /\ users[u].stamps <= 13

\* a user at the cap who was granted a 14th stamp, after a reset took place
C1_Witness ==
  \E u \in DOMAIN users :
    /\ users[u].stamps = 13
    /\ served[u].grant >= 14
    /\ served[u].reset >= 1

\* C2: every grant answered with success appends exactly one ADD event with
\* reason admin_grant for its user, also at the cap (the events written plus
\* those queued equal the successes); once all requests are through, a user
\* that was never reset has stamps = min(13, k) after k grants, and k ADD events.
C2_OneAddEventPerGrant ==
  \A u \in UserIds :
    /\ CountEvents(u, "ADD", "admin_grant") + QueuedEvents(u, "g_event") = served[u].grant
    /\ (Idle /\ u \in DOMAIN users /\ ~HasReset(u)) =>
         /\ users[u].stamps = Min(13, served[u].grant)
         /\ Len(EventsOf(u)) = served[u].grant

\* 14 grants on a user never reset: stamps 13 and 14 ADD events
C2_Witness ==
  /\ Idle
  /\ \E u \in DOMAIN users :
       /\ ~HasReset(u)
       /\ served[u].grant = 14
       /\ users[u].stamps = 13
       /\ CountEvents(u, "ADD", "admin_grant") = 14

\* C3: the UPDATE step of a grant on a user with counter s leaves min(13, s + 1);
\* when the id has no row the step first creates it with stamps 0 and isAdmin
\* false, so the user ends with stamps 1.
C3_GrantStep ==
  [][\A c \in Clients :
       (pc[c] = "g_upsert" /\ pc'[c] = "g_select") =>
          LET id == loc[c].userId
          IN /\ id \in DOMAIN users'
             /\ id \in DOMAIN users =>
                  /\ users'[id].stamps = Min(13, users[id].stamps + 1)
                  /\ users'[id].isAdmin = users[id].isAdmin
             /\ id \notin DOMAIN users =>
                  users'[id] = [stamps |-> 1, isAdmin |-> FALSE]]_vars

\* the guest id was created by a grant and holds 1 stamp; a user at the cap was
\* granted once more
C3_Witness ==
  /\ GuestId \in DOMAIN users
  /\ users[GuestId] = [stamps |-> 1, isAdmin |-> FALSE]
  /\ served[GuestId].grant = 1
  /\ \E u \in DOMAIN users : users[u].stamps = 13 /\ served[u].grant >= 14

\* C4: the UPDATE step of a reset leaves the session user's stamps at 0 whatever
\* it was and answers stamps 0; the step after it appends exactly one event,
\* RESET / user_reset, for that user; every reset answered has exactly one event.
C4_ResetStep ==
  /\ [](\A u \in UserIds :
          CountEvents(u, "RESET", "user_reset") + QueuedEvents(u, "r_event")
            = served[u].reset)
  /\ [][\A c \in Clients :
          /\ (pc[c] = "r_update" /\ pc'[c] # "r_update") =>
                /\ users'[loc[c].userId].stamps = 0
                /\ resp'[c].status = 200 /\ resp'[c].stamps = 0
                /\ pc'[c] = "r_event"
                /\ stamp_events' = stamp_events
          /\ (pc[c] = "r_event" /\ pc'[c] # "r_event") =>
                /\ Len(stamp_events') = Len(stamp_events) + 1
                /\ SubSeq(stamp_events', 1, Len(stamp_events)) = stamp_events
                /\ LET e == stamp_events'[Len(stamp_events')]
                   IN /\ e.userId = loc[c].userId
                      /\ e.eventType = "RESET"
                      /\ e.reason = "user_reset"]_vars

\* a user was reset twice after a grant: once from a positive counter or from 0,
\* and once more from 0
C4_Witness ==
  /\ Idle
  /\ \E u \in DOMAIN users :
       /\ served[u].grant = 1
       /\ served[u].reset = 2
       /\ users[u].stamps = 0
       /\ EventsOf(u)[1].eventType = "ADD"
       /\ CountEvents(u, "RESET", "user_reset") = 2

\* Status polling over a longer history: one registered user (client c1: signup,
\* status polling) and the administrator (client c2), who grants to that user and
\* to the guest id, up to MaxRecentEvents grants.
MaxRecentEvents == 4

NextRecent ==
  \/ Tick
  \/ Signup("c1", {<<"N">>}, {<<"a">>})
  \/ Projection("c1", Uuids)
  \/ Grant("c2", {"secret"}, UserIds, MaxRecentEvents)

SpecRecent == Init /\ [][NextRecent]_vars

\* The user page of a returning user: u1 signed up earlier, holds stamps from
\* earlier grants (all of time 0) and is logged in with client c1, whose browser
\* may hold milestone flags from earlier visits; the browser loads the page,
\* polls, refreshes and resets from it, while the administrator (client c2)
\* grants to u1, up to MaxPageEvents grants and resets.
MaxPageEvents == 3

\* what u1 did before: `before` grants followed by a reset (none when 0), then
\* `stamps` grants; `shown` are the milestones the browser has signalled
PageScenarios ==
  {[before |-> 0, stamps |-> 4, shown |-> {}],
   [before |-> 5, stamps |-> 4, shown |-> {5}],
   [before |-> 0, stamps |-> 9, shown |-> {5}],
   [before |-> 0, stamps |-> 12, shown |-> {5, 10}]}

PageHistory(sc) ==
  [i \in 1..sc.before |-> GrantEventRow("u1", 0)]
    \o (IF sc.before > 0 THEN <<ResetEventRow("u1", 0)>> ELSE <<>>)
    \o [i \in 1..sc.stamps |-> GrantEventRow("u1", 0)]

InitPage ==
  \E sc \in PageScenarios :
    /\ users = ("u1" :> [stamps |-> sc.stamps, isAdmin |-> FALSE])
    /\ stamp_events = PageHistory(sc)
    /\ user_profiles =
         ("u1" :> [username |-> <<"N">>, mailAddress |-> <<"a">>, description |-> <<>>,
                   job |-> <<>>, hobbies |-> <<>>, updatedAt |-> 0])
    /\ auth_identities =
         <<[userId |-> "u1", provider |-> "local", providerKey |-> <<"a">>, createdAt |-> 0]>>
    /\ session = [c \in Clients |-> IF c = "c1" THEN "u1" ELSE ""]
    /\ pc = [c \in Clients |-> "idle"]
    /\ loc = [c \in Clients |-> NoLoc]
    /\ resp = [c \in Clients |-> NoResp]
    /\ now = 0
    /\ ADMIN_TOKEN = "secret"
    /\ served = [u \in UserIds |-> [grant |-> 0, reset |-> 0]]
    /\ page = [c \in Clients |->
                 IF c = "c1"
                   THEN [NoPage EXCEPT
                           !.localStorage = {storageKey(value, "u1") : value \in sc.shown},
                           !.toasts = [i \in 1..Cardinality(sc.shown) |->
                                         storageKey(milestones[i], "u1")]]
                   ELSE NoPage]
    /\ startup = StartupDone

NextPage ==
  \/ Tick
  \/ pageLoad("c1")
  \/ \E forceRender \in BOOLEAN : fetchStatus("c1", forceRender)
  \/ fetchMe("c1")
  \/ ProjUser("c1")
  \/ ProjProfile("c1")
  \/ ProjLast("c1")
  \/ ProjEvents("c1")
  \/ fetchStatusDone("c1")
  \/ resetClick("c1")
  \/ fetchReset("c1", MaxPageEvents)
  \/ ResetSteps("c1")
  \/ resetDone("c1")
  \/ Grant("c2", {"secret"}, {"u1"}, MaxPageEvents)

SpecPage == InitPage /\ [][NextPage]_vars

\* Process start over a store left by earlier runs: any rows for the admin id,
\* a registered user and the guest id, in a users table with or without the
\* isAdmin column.
StartupIds == {ADMIN_USER_ID, "u1", GuestId}

StartupStamps == {0, 1}

StartupTables ==
  UNION {[ids -> [stamps : StartupStamps, isAdmin : BOOLEAN]] : ids \in SUBSET StartupIds}

InitStartup ==
  /\ users \in StartupTables
  /\ startup \in [pc : {"inspect"}, hasIsAdmin : BOOLEAN]
  /\ startup.hasIsAdmin \/ \A id \in DOMAIN users : ~users[id].isAdmin
  /\ stamp_events = <<>>
  /\ user_profiles = EmptyTable
  /\ auth_identities = <<>>
  /\ session = [c \in Clients |-> ""]
  /\ pc = [c \in Clients |-> "idle"]
  /\ loc = [c \in Clients |-> NoLoc]
  /\ resp = [c \in Clients |-> NoResp]
  /\ now = 0
  /\ ADMIN_TOKEN = "secret"
  /\ served = [u \in UserIds |-> [grant |-> 0, reset |-> 0]]
  /\ page = [c \in Clients |-> NoPage]

NextStartup ==
  \/ StartupInspect
  \/ StartupAlter
  \/ ensureAdminUser

SpecStartup == InitStartup /\ [][NextStartup]_vars

\* the counter of userId already carries a grant or reset whose event row is not
\* yet in stamp_events
CounterAhead(userId) ==
  \E c \in Clients :
    /\ pc[c] \in {"g_select", "g_event", "r_event"}
    /\ loc[c].userId = userId

\* C5: no read of another request observes the store between the counter update
\* of a grant or reset and the insertion of its event.
C5_NoPartialVisibility ==
  \A d \in Clients :
    pc[d] \in {"p_user", "p_last", "p_events"} => ~CounterAhead(loc[d].userId)

\* C6: once every request is through, each grant or reset that reported success
\* has its event in stamp_events, also when the store fails the event INSERT.
C6_SuccessHasEvent ==
  Idle => \A u \in UserIds : Len(EventsOf(u)) = served[u].grant + served[u].reset

\* C7: in a status response, lastUpdatedAt is null exactly when recentEvents is
\* empty and otherwise is the createdAt of the first returned event.
C7_ProjectionOneState ==
  \A c \in Clients :
    (resp[c].op \in {"me", "user"} /\ resp[c].status = 200) =>
       /\ (resp[c].lastUpdatedAt = <<>>) <=> (resp[c].recentEvents = <<>>)
       /\ resp[c].recentEvents # <<>> =>
            resp[c].lastUpdatedAt = <<resp[c].recentEvents[1].createdAt>>

\* C8: a signup with a user name and a mail address either succeeds or fails with
\* Conflict, also when another signup with the same address runs concurrently.
C8_SignupConflict ==
  \A c \in Clients :
    (resp[c].op = "signup" /\ resp[c].status \notin {0, 400}) =>
       resp[c].status \in {302, 409}

IdentityUsers == {auth_identities[i].userId : i \in 1..Len(auth_identities)}

\* C9: once every signup is through, a user row, its profile row and its local
\* identity row exist together or not at all.
C9_SignupAllOrNothing ==
  Idle =>
    /\ DOMAIN users = DOMAIN user_profiles
    /\ DOMAIN users = IdentityUsers

\* C10: a signup whose normalized address already has a local identity is
\* answered Conflict and changes no table; no two local identities have the
\* same address after trim and lowercase.
C10_DuplicateSignup ==
  /\ [](\A i, j \in 1..Len(auth_identities) :
          (i # j /\ auth_identities[i].provider = "local"
                 /\ auth_identities[j].provider = "local") =>
             ToLowerCase(Trim(auth_identities[i].providerKey))
               # ToLowerCase(Trim(auth_identities[j].providerKey)))
  /\ [][\A c \in Clients :
          (/\ pc[c] = "s_check" /\ pc'[c] # "s_check"
           /\ \E i \in 1..Len(auth_identities) :
                /\ auth_identities[i].provider = "local"
                /\ ToLowerCase(Trim(auth_identities[i].providerKey))
                     = ToLowerCase(Trim(loc[c].mailRaw))) =>
             /\ resp'[c].status = 409
             /\ pc'[c] = "idle"
             /\ store' = store]_vars

\* the address " A" was refused because "a" is registered
C10_Witness ==
  \E c \in Clients :
    /\ resp[c].op = "signup" /\ resp[c].status = 409
    /\ resp[c].mailAddress = <<" ", "A">>
    /\ Len(auth_identities) = 1
    /\ auth_identities[1].providerKey = <<"a">>

\* C11: in every reachable state no two rows of auth_identities have the same
\* provider and the same providerKey, under every interleaving of signups and
\* Google logins.
C11_IdentityPairUnique ==
  \A i, j \in 1..Len(auth_identities) :
    (/\ auth_identities[i].provider = auth_identities[j].provider
     /\ auth_identities[i].providerKey = auth_identities[j].providerKey) => i = j

\* two Google logins raced for one account id: one identity row was written, the
\* second INSERT was refused by the constraint and its request answered 500
C11_Witness ==
  /\ Len(auth_identities) = 1
  /\ auth_identities[1].provider = "google"
  /\ \E c \in Clients :
       /\ resp[c].op = "oauth" /\ resp[c].status = 500
       /\ resp[c].mailAddress = auth_identities[1].providerKey
  /\ Cardinality(DOMAIN users) = 2

\* C20: no Google login fails, two logins with the same account id are
\* answered with the same user id, and once every login is through exactly
\* one user row, one profile row and one identity row exist per account id.
C20_OAuthOneUser ==
  /\ \A c \in Clients :
       (resp[c].op = "oauth" /\ resp[c].status # 0) => resp[c].status = 302
  /\ \A c, d \in Clients :
       (/\ resp[c].op = "oauth" /\ resp[c].status = 302
        /\ resp[d].op = "oauth" /\ resp[d].status = 302
        /\ resp[c].mailAddress = resp[d].mailAddress) => resp[c].id = resp[d].id
  /\ Idle =>
       /\ Cardinality(DOMAIN users) = Len(auth_identities)
       /\ DOMAIN user_profiles = DOMAIN users
       /\ IdentityUsers = DOMAIN users

\* the local identity rows whose key is the address after trim and lowercase
LocalIdentity(mailAddress) ==
  SelectSeq(auth_identities,
            LAMBDA r : r.provider = "local"
                       /\ r.providerKey = ToLowerCase(Trim(mailAddress)))

\* the answer to the user name cross-check of a login: success for the user the
\* address resolves to, or UsernameMismatch with the session untouched
LoginAnswered(c, matches) ==
  IF matches
    THEN /\ resp'[c].status = 302 /\ resp'[c].error = ""
         /\ resp'[c].id = loc[c].userId
         /\ session'[c] = loc[c].userId
    ELSE /\ resp'[c].error = "username_mismatch"
         /\ session'[c] = session[c]

\* the lookup step and the cross-check step of a login, as the claim has them:
\* the address resolves after trim and lowercase, the user name is compared
\* after trim only
LoginResolves(c) ==
  /\ (pc[c] = "l_identity" /\ pc'[c] # "l_identity"
        /\ LocalIdentity(loc[c].mailRaw) # <<>>) =>
       /\ pc'[c] = "l_profile"
       /\ loc'[c].userId = LocalIdentity(loc[c].mailRaw)[1].userId
  /\ (pc[c] = "l_profile" /\ pc'[c] # "l_profile") =>
       LoginAnswered(c, Trim(loc[c].usernameRaw)
                          = Trim(user_profiles[loc[c].userId].username))

\* C12 as stated: a login with a registered address (after trim and lowercase)
\* succeeds for that user when the trimmed user name equals the stored one and
\* fails with UsernameMismatch when it differs; in particular it is never
\* answered NotFound.
C12_LoginLocalStated ==
  [][\A c \in Clients :
       /\ \A username \in LoginNames, mailAddress \in LoginMails :
            (LoginStart(c, username, mailAddress)
               /\ LocalIdentity(mailAddress) # <<>>) =>
              resp'[c].error # "not_found"
       /\ LoginResolves(c)]_vars

\* C12: a login with a registered address (after trim and lowercase) and a user
\* name that is not blank succeeds for that user when the trimmed user name
\* equals the stored one, compared case-sensitively, and fails with
\* UsernameMismatch when it differs; a login with a blank user name is answered
\* NotFound and sets no session.
C12_LoginLocal ==
  [][\A c \in Clients :
       /\ \A username \in LoginNames, mailAddress \in LoginMails :
            (LoginStart(c, username, mailAddress)
               /\ LocalIdentity(mailAddress) # <<>>) =>
              IF Trim(username) = <<>>
                THEN /\ resp'[c].error = "not_found"
                     /\ pc'[c] = "idle"
                     /\ session' = session
                ELSE /\ pc'[c] = "l_identity"
                     /\ resp'[c].error = ""
       /\ LoginResolves(c)]_vars

\* client c2 logged in as the registered user with the address " A", client c1
\* was refused with UsernameMismatch
C12_Witness ==
  /\ resp["c2"].op = "login" /\ resp["c2"].status = 302 /\ resp["c2"].error = ""
  /\ resp["c2"].mailAddress = <<" ", "A">>
  /\ session["c2"] \in DOMAIN users
  /\ resp["c1"].op = "login" /\ resp["c1"].error = "username_mismatch"

\* C13: a login whose address (after trim and lowercase) has no local identity is
\* answered NotFound; it leaves the caller's session as it was and writes no
\* row to any table.
C13_LoginNotFound ==
  [][\A c \in Clients :
       /\ \A username \in LoginNames, mailAddress \in LoginMails :
            (LoginStart(c, username, mailAddress)
               /\ LocalIdentity(mailAddress) = <<>>) =>
              /\ store' = store
              /\ session' = session
              /\ pc'[c] = "idle" => resp'[c].error = "not_found"
       /\ (pc[c] = "l_identity" /\ pc'[c] # "l_identity"
             /\ LocalIdentity(loc[c].mailRaw) = <<>>) =>
            /\ pc'[c] = "idle"
            /\ resp'[c].op = "login" /\ resp'[c].error = "not_found"
            /\ session' = session
            /\ store' = store]_vars

\* the address "b" was looked up and not found while "a" is registered; the
\* caller has no session
C13_Witness ==
  \E c \in Clients :
    /\ resp[c].op = "login" /\ resp[c].error = "not_found"
    /\ resp[c].mailAddress = <<"b">>
    /\ session[c] = ""
    /\ Len(auth_identities) = 1
    /\ auth_identities[1].providerKey = <<"a">>

\* C14: a profile update whose user name is empty after trimming is answered
\* 400 (ValidationError) and writes nothing: the stored profile row keeps its
\* username, description, job, hobbies, mailAddress and updatedAt.
C14_EmptyUsername ==
  [][\A c \in Clients :
       (/\ pc[c] \in {"f_read", "f_write"} /\ pc'[c] # pc[c]
        /\ Trim(loc[c].usernameRaw) = <<>>) =>
          /\ pc'[c] = "idle"
          /\ resp'[c].op = "profile" /\ resp'[c].status = 400
          /\ resp'[c].error = "username_required"
          /\ user_profiles' = user_profiles
          /\ store' = store]_vars

\* a user whose profile was saved at clock 1 as "M" with description "d" then
\* sent a blank user name and was refused; the row is as it was saved
C14_Witness ==
  \E c \in Clients :
    /\ resp[c].op = "profile" /\ resp[c].status = 400
    /\ resp[c].error = "username_required"
    /\ session[c] \in DOMAIN user_profiles
    /\ resp[c].id = session[c]
    /\ user_profiles[session[c]].username = <<"M">>
    /\ user_profiles[session[c]].description = <<"d">>
    /\ user_profiles[session[c]].updatedAt = 1
    /\ now = 1

\* C15: the mailAddress of a profile row never changes once the row exists, and
\* a profile update that supplies an address differing, after trim and
\* lowercase, from the stored one is answered MailImmutable and changes no
\* field of the profile.
C15_MailImmutable ==
  [][/\ \A u \in DOMAIN user_profiles :
          /\ u \in DOMAIN user_profiles'
          /\ user_profiles'[u].mailAddress = user_profiles[u].mailAddress
     /\ \A c \in Clients :
          (/\ pc[c] = "f_read" /\ pc'[c] # "f_read"
           /\ Trim(loc[c].usernameRaw) # <<>>
           /\ loc[c].userId \in DOMAIN user_profiles
           /\ ToLowerCase(Trim(loc[c].mailRaw)) # <<>>
           /\ ToLowerCase(Trim(loc[c].mailRaw))
                # ToLowerCase(Trim(user_profiles[loc[c].userId].mailAddress))) =>
             /\ pc'[c] = "idle"
             /\ resp'[c].status = 400 /\ resp'[c].error = "mail_immutable"
             /\ user_profiles' = user_profiles]_vars

\* C16: on a server with a configured secret, a grant request whose token
\* differs from it is answered 401 Unauthorized and goes no further: no user's
\* stamps and no event changes, and nothing else in the store.
C16_WrongToken ==
  [][\A c \in Clients, token \in GuardTokens, userId \in GuardUserIds :
       (/\ ADMIN_TOKEN # ""
        /\ token # ADMIN_TOKEN
        /\ GrantStart(c, token, userId, MaxEvents)) =>
          /\ resp'[c].op = "grant" /\ resp'[c].status = 401
          /\ resp'[c].error = "Unauthorized."
          /\ pc'[c] = "idle"
          /\ users' = users
          /\ stamp_events' = stamp_events
          /\ store' = store]_vars

\* a grant with a wrong token was refused while a user holds stamps and the log
\* holds events
C16_Witness ==
  /\ ADMIN_TOKEN = "secret"
  /\ resp["c2"].op = "grant" /\ resp["c2"].status = 401
  /\ \E u \in DOMAIN users : users[u].stamps >= 1
  /\ Len(stamp_events) >= 2

\* C17: a grant request with the right token and no userId is answered 400
\* (BadRequest) and goes no further: no user row is created, no counter
\* changes and no event is appended.
C17_MissingUserId ==
  [][\A c \in Clients :
       (/\ ADMIN_TOKEN # ""
        /\ GrantStart(c, ADMIN_TOKEN, "", MaxEvents)) =>
          /\ resp'[c].op = "grant" /\ resp'[c].status = 400
          /\ resp'[c].error = "userId is required."
          /\ pc'[c] = "idle"
          /\ DOMAIN users' = DOMAIN users
          /\ users' = users
          /\ stamp_events' = stamp_events]_vars

\* a grant without userId was refused while the guest id holds a stamp and the
\* log holds its event
C17_Witness ==
  /\ ADMIN_TOKEN = "secret"
  /\ resp["c2"].op = "grant" /\ resp["c2"].status = 400
  /\ GuestId \in DOMAIN users
  /\ users[GuestId].stamps = 1
  /\ CountEvents(GuestId, "ADD", "admin_grant") = 1

\* C19: no call of getUser fails: every request that went through it is
\* answered with the user it asked for, never with 500, also when two requests
\* meet an id that has no row yet; a first contact is answered with stamps 0.
C19_GetOrCreate ==
  \A c \in Clients :
    (resp[c].op \in {"page", "user", "reset"} /\ resp[c].status \notin {0, 401, 403}) =>
       /\ resp[c].status = 200
       /\ resp[c].id \in DOMAIN users
       /\ (resp[c].op = "page" /\ served[resp[c].id].grant = 0) => resp[c].stamps = 0

\* the stamps a user holds (none while it has no row), and its row
StampsOf(userId) == IF userId \in DOMAIN users THEN users[userId].stamps ELSE 0

UserRow(userId) == IF userId \in DOMAIN users THEN <<users[userId]>> ELSE <<>>

\* the request of client c is in the reset handler or in the profile handler
InOwnWriter(c) ==
  \/ pc[c] \in {"r_get", "r_update", "r_event", "f_read", "f_write"}
  \/ pc[c] \in {"u_select", "u_insert"} /\ loc[c].caller = "reset"

\* C18: a step that changes the stamps or the events of a user is a step of a
\* grant for that user or a step of a reset by the client identified (by
\* session or cookie) as that user; the steps of a reset and of a profile update
\* write no row of any other user; and a reset whose body names a user other
\* than the caller is answered 403 without any write.
C18_SoleThirdPartyWriter ==
  [][/\ \A u \in UserIds :
          (StampsOf(u)' # StampsOf(u) \/ EventsOf(u)' # EventsOf(u)) =>
             \E c \in Clients :
               /\ pc'[c] # pc[c]
               /\ loc[c].userId = u
               /\ \/ pc[c] \in {"g_upsert", "g_event"}
                  \/ pc[c] \in {"r_update", "r_event"} /\ session[c] = u
     /\ \A c \in Clients :
          (InOwnWriter(c) /\ pc'[c] # pc[c]) =>
             /\ loc[c].userId = session[c]
             /\ auth_identities' = auth_identities
             /\ \A u \in UserIds \ {session[c]} :
                  /\ UserRow(u)' = UserRow(u)
                  /\ EventsOf(u)' = EventsOf(u)
                  /\ getProfileByUserId(u)' = getProfileByUserId(u)
     /\ \A c \in Clients, bodyUserId \in WriterBodyIds :
          (/\ session[c] # ""
           /\ bodyUserId # ""
           /\ bodyUserId # session[c]
           /\ \/ ResetStart(c, bodyUserId, MaxWriterEvents)
              \/ CookieResetStart(c, bodyUserId, MaxWriterEvents)) =>
             /\ resp'[c].op = "reset" /\ resp'[c].status = 403
             /\ pc'[c] = "idle"
             /\ store' = store]_vars

\* client c1 has reset its own user and saved its profile, and was then refused
\* a reset naming the guest id, which holds a stamp
C18_Witness ==
  /\ session["c1"] \in DOMAIN users
  /\ served[session["c1"]].reset >= 1
  /\ session["c1"] \in DOMAIN user_profiles
  /\ user_profiles[session["c1"]].username = <<"M">>
  /\ resp["c1"].op = "reset" /\ resp["c1"].status = 403
  /\ GuestId \in DOMAIN users
  /\ users[GuestId].stamps >= 1

\* the request of client c is in a status handler (GET /api/me, GET /api/user/:id)
ProjPcs == {"p_user", "p_profile", "p_last", "p_events"}

\* client c takes a step of a status request: it is let in, it is refused, or
\* one of the awaited queries of the handler returns
ProjStep(c) ==
  \/ pc[c] = "idle" /\ pc'[c] = "p_user"
  \/ pc[c] = "idle" /\ pc'[c] = "idle" /\ resp'[c] # resp[c] /\ resp'[c].op \in {"me", "user"}
  \/ pc[c] \in ProjPcs /\ pc'[c] # pc[c]

\* C21: no step of a status request (GET /api/me, GET /api/user/:id) changes
\* users, stamp_events, user_profiles or auth_identities, however often the
\* request is made.
C21_ProjectionReadOnly ==
  [][\A c \in Clients : ProjStep(c) => store' = store]_vars

\* client c1 was answered 200 by a status request for a user that holds a stamp
\* and an event
C21_Witness ==
  /\ resp["c1"].op \in {"me", "user"} /\ resp["c1"].status = 200
  /\ resp["c1"].stamps >= 1
  /\ resp["c1"].recentEvents # <<>>
  /\ Len(EventsOf(resp["c1"].id)) >= 1

\* the number of entries of seq equal to x
Occurrences(seq, x) == Cardinality({i \in 1..Len(seq) : seq[i] = x})

\* the createdAt values of the rows of seq, in order
CreatedAts(seq) == [i \in 1..Len(seq) |-> seq[i].createdAt]

\* the rows of seq as a status response shows them
Views(seq) == [i \in 1..Len(seq) |-> EventView(seq[i])]

\* C22: the recentEvents of a status response are min(3, n) of the n events the
\* requested user has at the time of the query, ordered by createdAt with the
\* newest first, and no event of the user newer than the oldest one returned is
\* left out.
C22_RecentEvents ==
  [][\A c \in Clients :
       (pc[c] = "p_events" /\ pc'[c] = "idle") =>
          LET R == resp'[c].recentEvents
              E == EventsOf(loc[c].userId)
              k == Len(R)
          IN /\ resp'[c].status = 200
             /\ k <= 3
             /\ k = Min(3, Len(E))
             /\ \A i, j \in 1..k : i < j => R[i].createdAt >= R[j].createdAt
             /\ \A i \in 1..k :
                  Occurrences(R, R[i]) <= Occurrences(Views(E), R[i])
             /\ \A t \in 0..MaxClock :
                  (k > 0 /\ t > R[k].createdAt) =>
                     Occurrences(CreatedAts(R), t) = Occurrences(CreatedAts(E), t)]_vars

\* client c1 was answered with three events, the newest newer than the oldest,
\* while its user has four or more events, two of them older than the newest
C22_Witness ==
  /\ resp["c1"].op \in {"me", "user"} /\ resp["c1"].status = 200
  /\ Len(resp["c1"].recentEvents) = 3
  /\ resp["c1"].recentEvents[1].createdAt > resp["c1"].recentEvents[3].createdAt
  /\ Len(EventsOf(resp["c1"].id)) >= 4
  /\ \E t \in 0..MaxClock :
       /\ t < resp["c1"].recentEvents[1].createdAt
       /\ Occurrences(CreatedAts(EventsOf(resp["c1"].id)), t) >= 2

\* C23: in a status response, events of the user with the same createdAt appear
\* in the order of their insertion, the later inserted first: recentEvents is
\* the user's events sorted by createdAt and then by store sequence, both
\* descending, cut to three.
C23_TieByInsertion ==
  [][\A c \in Clients :
       (pc[c] = "p_events" /\ pc'[c] = "idle") =>
          LET E == EventsOf(loc[c].userId)
              n == Len(E)
              k == Min(RecentLimit, n)
              Before(a, b) == \/ E[a].createdAt > E[b].createdAt
                              \/ E[a].createdAt = E[b].createdAt /\ a > b
              f == CHOOSE g \in [1..k -> 1..n] :
                     /\ \A i, j \in 1..k : i < j => Before(g[i], g[j])
                     /\ \A m \in 1..n :
                          (\A i \in 1..k : g[i] # m) => \A i \in 1..k : Before(g[i], m)
          IN resp'[c].recentEvents = [i \in 1..k |-> EventView(E[f[i]])]]_vars

\* C24: the lastUpdatedAt of a status response is what its MAX(createdAt) query
\* found: null when the user had no event, otherwise the createdAt of an event
\* of the user that no event of the user exceeds.
C24_LastUpdatedAt ==
  [][\A c \in Clients :
       /\ (pc[c] = "p_last" /\ pc'[c] = "p_events") =>
             LET E == EventsOf(loc[c].userId)
             IN IF E = <<>>
                  THEN loc'[c].last = <<>>
                  ELSE /\ Len(loc'[c].last) = 1
                       /\ \E i \in 1..Len(E) : E[i].createdAt = loc'[c].last[1]
                       /\ \A i \in 1..Len(E) : E[i].createdAt <= loc'[c].last[1]
       /\ (pc[c] = "p_events" /\ pc'[c] = "idle") =>
             resp'[c].lastUpdatedAt = loc[c].last]_vars

\* client c1 was answered with the newer of the two createdAt values that the
\* events of its user carry
C24_Witness ==
  /\ resp["c1"].op \in {"me", "user"} /\ resp["c1"].status = 200
  /\ resp["c1"].lastUpdatedAt = <<1>>
  /\ Occurrences(CreatedAts(EventsOf(resp["c1"].id)), 0) >= 1
  /\ Occurrences(CreatedAts(EventsOf(resp["c1"].id)), 1) >= 1

\* seq is an initial part of longer
IsPrefix(seq, longer) ==
  /\ Len(seq) <= Len(longer)
  /\ \A i \in 1..Len(seq) : longer[i] = seq[i]

\* C25: stamp_events is append-only: every step leaves each stored event where
\* it was with its userId, createdAt, reason and eventType, and the events of
\* each user after the step begin with the events the user had before.
C25_AppendOnly ==
  [][/\ IsPrefix(stamp_events, stamp_events')
     /\ \A u \in UserIds : IsPrefix(EventsOf(u), EventsOf(u)')]_vars

\* a user that was granted a stamp and then reset holds both events, the ADD
\* before the RESET, after its profile was saved as well
C25_Witness ==
  \E u \in DOMAIN users :
    /\ Len(EventsOf(u)) >= 2
    /\ EventsOf(u)[1].eventType = "ADD"
    /\ EventsOf(u)[2].eventType = "RESET"
    /\ u \in DOMAIN user_profiles
    /\ Idle

\* the script of client c is handed the answer of its GET /api/me
Answered(c) ==
  /\ page[c].fetching \in {"poll", "force"}
  /\ pc[c] = "idle"
  /\ resp[c].op = "me" /\ resp[c].status = 200

\* the number of times the page of client c signalled milestone value to userId
Shown(c, value, userId) ==
  Occurrences(page[c].toasts, storageKey(value, userId))

\* C26: with the flags kept in localStorage, a browser signals each milestone
\* (5 and 10) of a user at most once, whatever polls, forced refreshes, page
\* loads, resets and further grants follow; and an answer that carries the count
\* the script already holds signals nothing.
C26_MilestoneOnce ==
  /\ [](\A c \in Clients, u \in UserIds, i \in 1..Len(milestones) :
          Shown(c, milestones[i], u) <= 1)
  /\ [][\A c \in Clients :
          (Answered(c) /\ page'[c].fetching = "" /\ clamp(resp[c].stamps) = page[c].currentStamps)
             => page'[c].toasts = page[c].toasts]_vars

\* the user was reset and granted up to 5 again after milestone 5 had been
\* signalled; the page, which last held fewer than 5, is about to render a
\* forced refresh that reports 5 or more
C26_Witness ==
  /\ Answered("c1")
  /\ page["c1"].fetching = "force"
  /\ page["c1"].currentStamps < 5
  /\ resp["c1"].stamps >= 5
  /\ CountEvents(page["c1"].userId, "RESET", "user_reset") >= 1
  /\ Shown("c1", 5, page["c1"].userId) = 1
  /\ storageKey(5, page["c1"].userId) \in page["c1"].localStorage

\* C27: when the script, holding a count below 5 and with milestone 5 not yet
\* flagged, is answered a count of 5 or more, it signals milestone 5 on that
\* answer: no crossing passes without its signal.
C27_CrossingShown ==
  [][\A c \in Clients :
       (/\ Answered(c)
        /\ page'[c].fetching = ""
        /\ page[c].currentStamps < 5
        /\ clamp(resp[c].stamps) >= 5
        /\ storageKey(5, page[c].userId) \notin page[c].localStorage)
          => /\ Shown(c, 5, page[c].userId)' = 1
             /\ storageKey(5, page[c].userId) \in page'[c].localStorage]_vars

\* C28: GET /api/user/:id answers with a status only for the id of the caller's
\* session: a request without session is answered 401 and one for another id
\* 403, at once and with no stamps, lastUpdatedAt or events in the answer; and
\* every 200 answer of the route is about the caller's own user.
C28_OwnStatusOnly ==
  /\ [](\A c \in Clients :
          resp[c].op = "user" =>
             IF resp[c].status = 200
               THEN resp[c].id = session[c]
               ELSE /\ resp[c].id = "" /\ resp[c].stamps = 0
                    /\ resp[c].lastUpdatedAt = <<>> /\ resp[c].recentEvents = <<>>)
  /\ [][\A c \in Clients, id \in UserIds :
          ((session[c] = "" \/ id # session[c]) /\ UserStart(c, id)) =>
             /\ resp'[c].op = "user"
             /\ resp'[c].status = IF session[c] = "" THEN 401 ELSE 403
             /\ pc'[c] = "idle"]_vars

\* client c1, logged in, was refused the status of the guest id, which holds a
\* stamp and an event
C28_Witness ==
  /\ session["c1"] # ""
  /\ resp["c1"].op = "user" /\ resp["c1"].status = 403
  /\ GuestId \in DOMAIN users
  /\ users[GuestId].stamps >= 1
  /\ Len(EventsOf(GuestId)) >= 1

\* the GET /user of client c is answered in this step
PageAnswered(c) ==
  /\ pc[c] \in {"u_select", "u_insert"}
  /\ loc[c].caller = "page"
  /\ pc'[c] = "idle"

C30_AdminExists ==
  startup.pc = "done" =>
     /\ ADMIN_USER_ID \in DOMAIN users
     /\ users[ADMIN_USER_ID].isAdmin

\* A store whose counter is out of range: the users row of u1, written by an
\* earlier version of the program or by hand, holds any of ClampStored.  u1 is
\* logged in with both clients; client c1 loads the user page and polls, client
\* c2 asks for the status by id and, as the administrator, grants to u1.
ClampStored == {0 - 2, 0, 5, 13, 14, 20}

InitClamp ==
  /\ \E n \in ClampStored : users = ("u1" :> [stamps |-> n, isAdmin |-> FALSE])
  /\ stamp_events = <<>>
  /\ user_profiles =
       ("u1" :> [username |-> <<"N">>, mailAddress |-> <<"a">>, description |-> <<>>,
                 job |-> <<>>, hobbies |-> <<>>, updatedAt |-> 0])
  /\ auth_identities =
       <<[userId |-> "u1", provider |-> "local", providerKey |-> <<"a">>, createdAt |-> 0]>>
  /\ session = [c \in Clients |-> "u1"]
  /\ pc = [c \in Clients |-> "idle"]
  /\ loc = [c \in Clients |-> NoLoc]
  /\ resp = [c \in Clients |-> NoResp]
  /\ now = 0
  /\ ADMIN_TOKEN = "secret"
  /\ served = [u \in UserIds |-> [grant |-> 0, reset |-> 0]]
  /\ page = [c \in Clients |-> NoPage]
  /\ startup = StartupDone

NextClamp ==
  \/ pageLoad("c1")
  \/ \E forceRender \in BOOLEAN : fetchStatus("c1", forceRender)
  \/ fetchMe("c1")
  \/ fetchStatusDone("c1")
  \/ \E c \in Clients :
       \/ ProjUser(c)
       \/ ProjProfile(c)
       \/ ProjLast(c)
       \/ ProjEvents(c)
  \/ UserStart("c2", "u1")
  \/ Grant("c2", {"secret"}, {"u1"}, MaxEvents)

SpecClamp == InitClamp /\ [][NextClamp]_vars

\* C31: every stamps value handed out at a read boundary is max(0, min(13, n))
\* of the stored counter n that was read: the value a status request reads and
\* then answers with, the value the user page is rendered from, and the value
\* in a grant's answer; so every such value lies in 0..13, also when the store
\* holds a counter below 0 or above 13.
C31_ClampAtRead ==
  /\ [](\A c \in Clients :
          /\ resp[c].stamps \in 0..13
          /\ page[c].currentStamps \in 0..13)
  /\ [][\A c \in Clients :
          /\ (pc[c] = "p_user" /\ pc'[c] \in {"p_profile", "p_last"}) =>
                loc'[c].stamps = Max(0, Min(13, users[loc[c].userId].stamps))
          /\ (pc[c] = "p_events" /\ pc'[c] = "idle") =>
                resp'[c].status = 200 /\ resp'[c].stamps = loc[c].stamps
          /\ (pc[c] = "g_select" /\ pc'[c] = "g_event") =>
                /\ resp'[c].status = 200
                /\ resp'[c].stamps = Max(0, Min(13, users[loc[c].userId].stamps))
          /\ (pageLoad(c) /\ page'[c].open) =>
                page'[c].currentStamps = Max(0, Min(13, users[session[c]].stamps))
          /\ (Answered(c) /\ page'[c].fetching = "") =>
                page'[c].currentStamps = resp[c].stamps]_vars

\* the store holds 20 for u1: the page of client c1 shows 13 and the status
\* request of client c2 was answered 13
C31_Witness ==
  /\ users["u1"].stamps = 20
  /\ page["c1"].open /\ page["c1"].currentStamps = 13
  /\ resp["c2"].op = "user" /\ resp["c2"].status = 200 /\ resp["c2"].stamps = 13

\* the store holds a counter below 0 after a grant, whose answer said 0
C31_WitnessBelow ==
  /\ users["u1"].stamps < 0
  /\ resp["c2"].op = "grant" /\ resp["c2"].status = 200 /\ resp["c2"].stamps = 0

\* The whole login server after a first start on an empty store, which left the
\* row of ADMIN_USER_ID: client c1 registers, logs in, saves its profile, polls
\* its status and resets; client c2 logs in through Google and, as the
\* administrator, grants to the registered users.
InitFrame ==
  /\ users = InsertAdminUser(EmptyTable)
  /\ stamp_events = <<>>
  /\ user_profiles = EmptyTable
  /\ auth_identities = <<>>
  /\ session = [c \in Clients |-> ""]
  /\ pc = [c \in Clients |-> "idle"]
  /\ loc = [c \in Clients |-> NoLoc]
  /\ resp = [c \in Clients |-> NoResp]
  /\ now = 0
  /\ ADMIN_TOKEN = "secret"
  /\ served = [u \in UserIds |-> [grant |-> 0, reset |-> 0]]
  /\ page = [c \in Clients |-> NoPage]
  /\ startup = StartupDone

NextFrame ==
  \/ session["c1"] = "" /\ SignupRequest("c1", {<<"N">>}, {<<"a">>})
  \/ SignupSteps("c1")
  \/ Login("c1", {<<"M">>}, {<<"a">>})
  \/ Profile("c1", {<<"M">>}, {<<>>}, {<<"d">>})
  \/ Projection("c1", Uuids)
  \/ Reset("c1", {""}, MaxWriterEvents)
  \/ session["c2"] = "" /\ OAuthRequest("c2", {<<"g">>}, {<<>>}, {<<"A">>})
  \/ OAuthSteps("c2")
  \/ Grant("c2", {"secret"}, Uuids, MaxWriterEvents)

SpecFrame == InitFrame /\ [][NextFrame]_vars

\* the request of client c is in the signup, login, Google login, profile or
\* status handler
InIdentityOp(c) ==
  pc[c] \in SignupPcs \cup OAuthPcs \cup ProjPcs \cup {"l_identity", "l_profile", "f_read", "f_write"}

\* C32: no step deletes a users row; a step of a signup, a login, a Google
\* login, a profile update or a status request leaves the stamps and isAdmin of
\* every existing user as they were; and whenever the stamps of an existing user
\* change, the step is the UPDATE of a grant or of a reset for that user, which
\* leaves isAdmin alone.
C32_LedgerOnly ==
  [][/\ DOMAIN users \subseteq DOMAIN users'
     /\ \A u \in DOMAIN users : users'[u].isAdmin = users[u].isAdmin
     /\ \A c \in Clients :
          ((InIdentityOp(c) \/ pc[c] = "idle") /\ pc'[c] # pc[c]) =>
             \A u \in DOMAIN users : users'[u] = users[u]
     /\ \A u \in DOMAIN users :
          users'[u].stamps # users[u].stamps =>
             \E c \in Clients :
               /\ pc[c] \in {"g_upsert", "r_update"}
               /\ pc'[c] # pc[c]
               /\ loc[c].userId = u]_vars

\* the registered user holds a stamp, has renamed itself and has then logged in
\* under the new name; a second user came through Google; the row of
\* ADMIN_USER_ID is as startup left it
C32_Witness ==
  /\ session["c1"] \in DOMAIN users
  /\ users[session["c1"]].stamps >= 1
  /\ session["c1"] \in DOMAIN user_profiles
  /\ user_profiles[session["c1"]].username = <<"M">>
  /\ resp["c1"].op = "login" /\ resp["c1"].status = 302 /\ resp["c1"].error = ""
  /\ session["c2"] \in DOMAIN users
  /\ session["c2"] # session["c1"]
  /\ users[ADMIN_USER_ID] = [stamps |-> 0, isAdmin |-> TRUE]

\* C33: the mailAddress of every stored profile row is in normalized form: it
\* equals itself after trim and lowercase, whether the row was written by a
\* local signup or by a first Google login.
C33_MailNormalized ==
  \A u \in DOMAIN user_profiles :
    user_profiles[u].mailAddress = ToLowerCase(Trim(user_profiles[u].mailAddress))

\* no request of a grant or of a reset is under way, its queued event INSERT
\* included
LedgerQuiet ==
  \A c \in Clients :
    /\ pc[c] \notin {"g_upsert", "g_select", "g_event", "r_get", "r_update", "r_event"}
    /\ pc[c] \in {"u_select", "u_insert"} => loc[c].caller # "reset"

\* the counter that the events of seq give when applied in order to s
RECURSIVE Replay(_, _)
Replay(s, seq) ==
  IF seq = <<>> THEN s
  ELSE Replay(IF Head(seq).eventType = "ADD" THEN Min(13, s + 1) ELSE 0, Tail(seq))

\* C34: whenever no grant and no reset is under way, the stored stamps of each
\* user equals the counter obtained by replaying the user's events in insertion
\* order from 0 (ADD gives min(13, s + 1), RESET gives 0), whatever the
\* interleaving of the grants and resets was.
C34_ReplayMatches ==
  LedgerQuiet => \A u \in DOMAIN users : users[u].stamps = Replay(0, EventsOf(u))

\* Concurrent grants: at time 1 two administrators (both clients) grant to u1,
\* who holds the stamps of earlier grants (all of time 0), and to the guest id,
\* which has no row yet; up to MaxEvents grants in all.
GrantStarts == {0, 11, 12, 13}

InitGrants ==
  /\ \E s \in GrantStarts :
       /\ users = ("u1" :> [stamps |-> s, isAdmin |-> FALSE])
       /\ stamp_events = [i \in 1..s |-> GrantEventRow("u1", 0)]
  /\ user_profiles =
       ("u1" :> [username |-> <<"N">>, mailAddress |-> <<"a">>, description |-> <<>>,
                 job |-> <<>>, hobbies |-> <<>>, updatedAt |-> 0])
  /\ auth_identities =
       <<[userId |-> "u1", provider |-> "local", providerKey |-> <<"a">>, createdAt |-> 0]>>
  /\ session = [c \in Clients |-> ""]
  /\ pc = [c \in Clients |-> "idle"]
  /\ loc = [c \in Clients |-> NoLoc]
  /\ resp = [c \in Clients |-> NoResp]
  /\ now = 1
  /\ ADMIN_TOKEN = "secret"
  /\ served = [u \in UserIds |-> [grant |-> 0, reset |-> 0]]
  /\ page = [c \in Clients |-> NoPage]
  /\ startup = StartupDone

NextGrants ==
  \E c \in Clients : Grant(c, {"secret"}, {"u1", GuestId}, MaxEvents)

SpecGrants == InitGrants /\ [][NextGrants]_vars

\* the ADD events of userId written before time 1, and those written since
OldAdds(userId) ==
  Cardinality({i \in 1..Len(stamp_events) :
                 /\ stamp_events[i] = GrantEventRow(userId, 0)})

NewAdds(userId) ==
  Cardinality({i \in 1..Len(stamp_events) :
                 /\ stamp_events[i].userId = userId
                 /\ stamp_events[i].eventType = "ADD"
                 /\ stamp_events[i].createdAt >= 1})

\* the grants for userId whose UPDATE has run
Incremented(userId) ==
  served[userId].grant
    + Cardinality({c \in Clients : pc[c] = "g_select" /\ loc[c].userId = userId})

\* C35: no increment is lost: a user who held s stamps holds min(13, s + N)
\* once the UPDATEs of N grants have run, however the grants of the two clients
\* interleave, and once the N grants are through exactly N ADD events have been
\* added for the user.
C35_NoLostGrant ==
  \A u \in {"u1", GuestId} :
    /\ u \in DOMAIN users => users[u].stamps = Min(13, OldAdds(u) + Incremented(u))
    /\ u \notin DOMAIN users => Incremented(u) = 0
    /\ LedgerQuiet =>
         /\ NewAdds(u) = served[u].grant
         /\ Len(EventsOf(u)) = OldAdds(u) + served[u].grant

\* two grants for u1, who held 11 stamps, have both run their UPDATE and neither
\* is answered yet: the counter stands at 13
C35_Witness ==
  /\ pc["c1"] = "g_select" /\ loc["c1"].userId = "u1"
  /\ pc["c2"] = "g_select" /\ loc["c2"].userId = "u1"
  /\ OldAdds("u1") = 11
  /\ users["u1"].stamps = 13

\* three grants for u1, who held 12 stamps, are through, the last two answered
\* to different clients: stamps 13 and three new ADD events
C35_WitnessCap ==
  /\ LedgerQuiet
  /\ OldAdds("u1") = 12
  /\ served["u1"].grant = 3
  /\ users["u1"].stamps = 13
  /\ NewAdds("u1") = 3
  /\ resp["c1"].op = "grant" /\ resp["c2"].op = "grant"

\* C36: the stamps that a successful grant answers with is the counter its own
\* increment left: min(13, s + 1) for the counter s it incremented, a value of at
\* least 1, also while a reset of the same user runs.  (The handler keeps no
\* record of the value its UPDATE wrote; with the administrator as the only
\* granter an answer differs from that value exactly when a reset came between
\* the UPDATE and the SELECT, and is then 0.)
C36_OwnIncrement ==
  [][\A c \in Clients :
       (pc[c] = "g_select" /\ pc'[c] = "g_event") =>
          /\ resp'[c].status = 200
          /\ \E s \in 0..13 : resp'[c].stamps = Min(13, s + 1)]_vars

\* C37: on a server with no ADMIN_TOKEN configured (the empty string) every
\* request to the grant endpoint, whatever token it carries (the right-looking
\* empty or missing one included) and whatever userId, is refused at once and
\* changes nothing; no grant is ever answered with success or under way there.
C37_NoSecretNoGrant ==
  /\ [](ADMIN_TOKEN = "" =>
          /\ \A c \in Clients : pc[c] \notin {"g_upsert", "g_select", "g_event"}
          /\ \A c \in Clients : resp[c].op = "grant" => resp[c].status = 500
          /\ \A u \in UserIds : served[u].grant = 0
          /\ \A i \in 1..Len(stamp_events) : stamp_events[i].eventType # "ADD")
  /\ [][\A c \in Clients, token \in GuardTokens, userId \in GuardUserIds :
          (ADMIN_TOKEN = "" /\ GrantStart(c, token, userId, MaxEvents)) =>
             /\ resp'[c].op = "grant" /\ resp'[c].status = 500
             /\ pc'[c] = "idle"
             /\ store' = store
             /\ served' = served]_vars

\* with no secret configured a grant was refused while a registered user exists
\* and has reset its card
C37_Witness ==
  /\ ADMIN_TOKEN = ""
  /\ resp["c2"].op = "grant" /\ resp["c2"].status = 500
  /\ \E u \in DOMAIN users : served[u].reset >= 1 /\ Len(EventsOf(u)) >= 1

\* C38: in every reachable state each row of auth_identities names a user id
\* that has a users row and a user_profiles row, also after signups and first
\* Google logins that failed or ran interleaved.
C38_IdentityHasUser ==
  \A i \in 1..Len(auth_identities) :
    /\ auth_identities[i].userId \in DOMAIN users
    /\ auth_identities[i].userId \in DOMAIN user_profiles

\* two signups raced for one address: one was answered 500 and left its users
\* and profile rows behind, the other wrote the identity
C38_Witness ==
  /\ \E c \in Clients : resp[c].op = "signup" /\ resp[c].status = 500
  /\ Len(auth_identities) >= 1
  /\ \E i \in 1..Len(auth_identities) : auth_identities[i].provider = "local"
  /\ Cardinality(DOMAIN users) > Len(auth_identities)
  /\ Cardinality(DOMAIN user_profiles) > Len(auth_identities)

\* the request of client c is in the grant handler or in the reset handler
InLedgerOp(c) ==
  pc[c] \in {"g_upsert", "g_select", "g_event", "r_get", "r_update", "r_event"}

\* C39: every step of a grant or of a reset on a user leaves the users row (the
\* stamps with it) and the events of every other user as they were, and its
\* refusal or admission leaves all of them so.
C39_OtherUsersUntouched ==
  [][\A c \in Clients :
       /\ (InLedgerOp(c) /\ pc'[c] # pc[c]) =>
             \A u \in UserIds \ {loc[c].userId} :
               /\ StampsOf(u)' = StampsOf(u)
               /\ UserRow(u)' = UserRow(u)
               /\ EventsOf(u)' = EventsOf(u)
       /\ (pc[c] = "idle" /\ resp'[c] # resp[c] /\ resp'[c].op \in {"grant", "reset"}) =>
             /\ users' = users
             /\ stamp_events' = stamp_events]_vars

\* the guest id was granted a stamp; the registered user was granted one and
\* has reset: the guest id holds its stamp and its one event
C39_Witness ==
  /\ Idle
  /\ GuestId \in DOMAIN users
  /\ users[GuestId].stamps = 1
  /\ Len(EventsOf(GuestId)) = 1
  /\ \E u \in Uuids :
       /\ u \in DOMAIN users
       /\ served[u].grant >= 1
       /\ served[u].reset >= 1
       /\ users[u].stamps = 0
       /\ Len(EventsOf(u)) = 2

====
